---- MODULE Spec2Model ----
(***************************************************************************)
(* PalePlatformer: the tile-grid collision system, the shared kinematic    *)
(* integrator (PhysicsEntity.update), the player state machine and the     *)
(* collectables, as written in src/scripts/entities.py,                    *)
(* src/scripts/tilemap.py and src/game.py.                                 *)
(*                                                                         *)
(* Numbers.  The program computes positions and velocities in Python       *)
(* floats.  The model keeps them in fixed point: a position or velocity v  *)
(* of the program is the integer v * SCALE.  pygame.Rect truncates its     *)
(* float arguments toward zero to whole pixels; Trunc models that, so a    *)
(* Rect of the model is in whole pixels exactly as in the program.         *)
(***************************************************************************)
EXTENDS Integers, Sequences, FiniteSets, Bags, TLC

\* ------------------------------------------------------------------------
\* Fixed point
\* ------------------------------------------------------------------------
SCALE == 1000

\* int(v) of a float v: truncation toward zero, the result in whole pixels
Trunc(v) == IF v >= 0 THEN v \div SCALE ELSE -((-v) \div SCALE)

\* a / b of floats a and b, the fixed-point quotient rounded toward zero
FDiv(a, b) == IF a >= 0 THEN a \div b ELSE -((-a) \div b)

Min(a, b) == IF a <= b THEN a ELSE b
Max(a, b) == IF a >= b THEN a ELSE b
Abs(a) == IF a >= 0 THEN a ELSE -a

\* the element of a set of one.  A run of statements is written as nested
\* sets of one, each binding the value of one statement; the last line of
\* such a chain is the first statement, and the chain is read upward
Only(S) == CHOOSE r \in S : TRUE

\* ------------------------------------------------------------------------
\* Constants of the program
\* ------------------------------------------------------------------------
TILE_SIZE == 16
TERMINAL_VELOCITY == 5000
GRAVITY_CONST == 200
PLAYER_SIZE == <<8, 14>>
AIRTIME_BUFFER == 4

PHYSICS_TILES == {"grass", "stone", "spikes"}

NEIGHBOR_TILES ==
    << <<-2,-2>>, <<-2,-1>>, <<-2,0>>, <<-2,1>>, <<-2,2>>,
       <<-1,-2>>, <<-1,-1>>, <<-1,0>>, <<-1,1>>, <<-1,2>>,
       <<0,-2>>,  <<0,-1>>,  <<0,0>>,  <<0,1>>,  <<0,2>>,
       <<1,-2>>,  <<1,-1>>,  <<1,0>>,  <<1,1>>,  <<1,2>>,
       <<2,-2>>,  <<2,-1>>,  <<2,0>>,  <<2,1>>,  <<2,2>> >>

\* ------------------------------------------------------------------------
\* pygame.Rect
\* ------------------------------------------------------------------------
Rect(x, y, w, h) == [x |-> x, y |-> y, w |-> w, h |-> h]

\* Rect.colliderect: strict overlap, touching edges do not collide
colliderect(a, b) ==
    /\ a.w > 0 /\ a.h > 0 /\ b.w > 0 /\ b.h > 0
    /\ a.x < b.x + b.w
    /\ a.y < b.y + b.h
    /\ a.x + a.w > b.x
    /\ a.y + a.h > b.y

\* ------------------------------------------------------------------------
\* Tilemap: the grid is a function from grid cells (the key "x;y") to tile
\* records
\* ------------------------------------------------------------------------
Tile(type, gx, gy) == [type |-> type, variant |-> 0, pos |-> <<gx, gy>>]

\* the grid holding the given tiles, each under the key of its position
MakeTilemap(tiles) ==
    [loc \in {t.pos : t \in tiles} |-> CHOOSE t \in tiles : t.pos = loc]

\* Tilemap.tiles_nearby: the tiles of the 5x5 window around floor(pos/size),
\* in the order of NEIGHBOR_TILES
RECURSIVE TilesFrom(_, _, _)
TilesFrom(tm, loc, i) ==
    IF i > Len(NEIGHBOR_TILES) THEN << >>
    ELSE LET cell == <<loc[1] + NEIGHBOR_TILES[i][1], loc[2] + NEIGHBOR_TILES[i][2]>>
             rest == TilesFrom(tm, loc, i + 1)
         IN IF cell \in DOMAIN tm THEN <<tm[cell]>> \o rest ELSE rest

tiles_nearby(tm, pos) ==
    TilesFrom(tm, <<pos[1] \div (TILE_SIZE * SCALE), pos[2] \div (TILE_SIZE * SCALE)>>, 1)

\* Tilemap.physics_rects_nearby: the rectangles of the nearby solid tiles
RECURSIVE RectsOf(_, _)
RectsOf(tiles, i) ==
    IF i > Len(tiles) THEN << >>
    ELSE LET t == tiles[i]
             rest == RectsOf(tiles, i + 1)
         IN IF t.type \in PHYSICS_TILES
            THEN <<Rect(t.pos[1] * TILE_SIZE, t.pos[2] * TILE_SIZE, TILE_SIZE, TILE_SIZE)>> \o rest
            ELSE rest

\* the rectangles of the nearby tiles, whatever their type
physics_rects_any_type(tm, pos) ==
    [k \in 1..Len(tiles_nearby(tm, pos)) |->
        Rect(tiles_nearby(tm, pos)[k].pos[1] * TILE_SIZE,
             tiles_nearby(tm, pos)[k].pos[2] * TILE_SIZE, TILE_SIZE, TILE_SIZE)]

physics_rects_nearby(tm, pos) == RectsOf(tiles_nearby(tm, pos), 1)

\* (tile['type'], tile['variant']) in id_pairs
Matches(t, id_pairs) == <<t.type, t.variant>> \in id_pairs

\* Tilemap.extract, the loop over the loose objects: it runs over a copy of
\* offgrid_tiles, appends a copy of every object that matches and, unless
\* keep, removes the object from offgrid_tiles
extract_offgrid(off, id_pairs, keep) ==
    [matches |-> SelectSeq(off, LAMBDA t : Matches(t, id_pairs)),
     offgrid_tiles |-> IF keep THEN off
                       ELSE SelectSeq(off, LAMBDA t : ~Matches(t, id_pairs))]

\* Tilemap.extract, the loop over the grid: "for loc in self.tilemap" runs
\* over the dictionary itself, in the order of its keys (order), appends a
\* copy of every tile that matches with its position in pixels and, unless
\* keep, deletes the tile: the iterator of the dictionary then raises
\* RuntimeError (the dictionary has changed size) when it is asked for the
\* key that follows, were it the last
RECURSIVE extract_grid(_, _, _, _, _, _)
extract_grid(tm, order, i, id_pairs, keep, matches) ==
    IF i > Len(order) THEN [tilemap |-> tm, matches |-> matches, raised |-> FALSE]
    ELSE IF ~Matches(tm[order[i]], id_pairs)
         THEN extract_grid(tm, order, i + 1, id_pairs, keep, matches)
         ELSE LET tile == tm[order[i]]
                  found == Append(matches,
                               [tile EXCEPT !.pos = <<tile.pos[1] * TILE_SIZE,
                                                      tile.pos[2] * TILE_SIZE>>])
              IN IF keep THEN extract_grid(tm, order, i + 1, id_pairs, keep, found)
                 ELSE [tilemap |-> [loc \in DOMAIN tm \ {order[i]} |-> tm[loc]],
                       matches |-> << >>, raised |-> TRUE]

\* Tilemap.extract(id_pairs, keep): the grid and the loose objects after the
\* call, the list it returns (none when it raises) and whether it raises
extract(tm, off, order, id_pairs, keep) ==
    Only({ Only({ [tilemap |-> g.tilemap, offgrid_tiles |-> o.offgrid_tiles,
                   matches |-> g.matches, raised |-> g.raised]
                : g \in {extract_grid(tm, order, 1, id_pairs, keep, o.matches)} })
         : o \in {extract_offgrid(off, id_pairs, keep)} })

\* ------------------------------------------------------------------------
\* PhysicsEntity
\* ------------------------------------------------------------------------
NoCollisions == [up |-> FALSE, down |-> FALSE, right |-> FALSE, left |-> FALSE]

\* PhysicsEntity.__init__
NewEntity(pos, size) ==
    [pos |-> pos, size |-> size, velocity |-> <<0, 0>>, gravity |-> GRAVITY_CONST,
     collisions |-> NoCollisions, last_movement |-> <<0, 0>>, flip |-> FALSE,
     action |-> "idle"]

\* PhysicsEntity.entity_rect
entity_rect(e) == Rect(Trunc(e.pos[1]), Trunc(e.pos[2]), e.size[1], e.size[2])

\* a ResolveX that snaps to the wrong edge of the tile
RECURSIVE ResolveX_wrong_edge(_, _, _, _)
ResolveX_wrong_edge(rects, i, fmx, st) ==
    IF i > Len(rects) THEN st
    ELSE LET r == rects[i] IN
         IF colliderect(st.rect, r)
         THEN LET r1 == IF fmx > 0 THEN [st.rect EXCEPT !.x = r.x + r.w] ELSE st.rect
                  r2 == IF fmx < 0 THEN [r1 EXCEPT !.x = r.x - r1.w] ELSE r1
              IN ResolveX_wrong_edge(rects, i + 1, fmx,
                          [rect |-> r2, pos |-> r2.x * SCALE,
                           right |-> st.right \/ fmx > 0,
                           left |-> st.left \/ fmx < 0])
         ELSE ResolveX_wrong_edge(rects, i + 1, fmx, st)

\* the X pass of PhysicsEntity.update: the loop over the nearby rectangles.
\* st = [rect, pos, right, left]: the entity rectangle as clamped so far, the
\* X position written back so far, and the two flags
RECURSIVE ResolveX(_, _, _, _)
ResolveX(rects, i, fmx, st) ==
    IF i > Len(rects) THEN st
    ELSE LET r == rects[i] IN
         IF colliderect(st.rect, r)
         THEN LET r1 == IF fmx > 0 THEN [st.rect EXCEPT !.x = r.x - st.rect.w] ELSE st.rect
                  r2 == IF fmx < 0 THEN [r1 EXCEPT !.x = r.x + r.w] ELSE r1
              IN ResolveX(rects, i + 1, fmx,
                          [rect |-> r2, pos |-> r2.x * SCALE,
                           right |-> st.right \/ fmx > 0,
                           left |-> st.left \/ fmx < 0])
         ELSE ResolveX(rects, i + 1, fmx, st)

\* the Y pass of PhysicsEntity.update.  st = [rect, pos, down, up]
RECURSIVE ResolveY(_, _, _, _)
ResolveY(rects, i, fmy, st) ==
    IF i > Len(rects) THEN st
    ELSE LET r == rects[i] IN
         IF colliderect(st.rect, r)
         THEN LET r1 == IF fmy > 0 THEN [st.rect EXCEPT !.y = r.y - st.rect.h] ELSE st.rect
                  r2 == IF fmy < 0 THEN [r1 EXCEPT !.y = r.y + r.h] ELSE r1
              IN ResolveY(rects, i + 1, fmy,
                          [rect |-> r2, pos |-> r2.y * SCALE,
                           down |-> st.down \/ fmy > 0,
                           up |-> st.up \/ fmy < 0])
         ELSE ResolveY(rects, i + 1, fmy, st)

\* a reset that leaves the flags of the previous step in place
reset_collisions_kept(e) == e

\* a reset of the horizontal flags only
reset_collisions_sides_only(e) ==
    [e EXCEPT !.collisions.left = FALSE, !.collisions.right = FALSE]

\* PhysicsEntity.update, "Reset collision detection"
reset_collisions(e) == [e EXCEPT !.collisions = NoCollisions]

\* PhysicsEntity.update, "Add velocity onto position"
frame_movement(e, movement) ==
    <<movement[1] + e.velocity[1], movement[2] + e.velocity[2]>>

\* PhysicsEntity.update, the X displacement and its resolution
x_pass(e, tm, fmx) ==
    Only({ Only({ Only({ Only({
        [e EXCEPT !.pos = <<s.pos, e.pos[2]>>,
                  !.collisions.right = s.right,
                  !.collisions.left = s.left]
      : s \in {ResolveX(rects, 1, fmx, st)} })
      : st \in {[rect |-> entity_rect([e EXCEPT !.pos = p]), pos |-> p[1],
           right |-> e.collisions.right, left |-> e.collisions.left]} })
      : rects \in {physics_rects_nearby(tm, p)} })
      : p \in {<<e.pos[1] + fmx, e.pos[2]>>} })

\* PhysicsEntity.update, the Y displacement and its resolution
y_pass(e, tm, fmy) ==
    Only({ Only({ Only({ Only({
        [e EXCEPT !.pos = <<e.pos[1], s.pos>>,
                  !.collisions.down = s.down,
                  !.collisions.up = s.up]
      : s \in {ResolveY(rects, 1, fmy, st)} })
      : st \in {[rect |-> entity_rect([e EXCEPT !.pos = p]), pos |-> p[2],
           down |-> e.collisions.down, up |-> e.collisions.up]} })
      : rects \in {physics_rects_nearby(tm, p)} })
      : p \in {<<e.pos[1], e.pos[2] + fmy>>} })

\* a fall_velocity that never zeroes the velocity on a vertical collision
fall_velocity_no_rest(e, vy) ==
    Min(TERMINAL_VELOCITY, vy + e.gravity)

\* a fall_velocity that caps the velocity before it adds the gravity
fall_velocity_cap_first(e, vy) ==
    IF e.collisions.down \/ e.collisions.up THEN 0
    ELSE Min(TERMINAL_VELOCITY, vy) + e.gravity

\* PhysicsEntity.update, "Add gravity and cap terminal velocity" and "Reset
\* gravity if on ground or bonking head on ceiling": the vertical velocity
\* after the step of an entity e (as resolved) that entered it with vy
fall_velocity(e, vy) ==
    IF e.collisions.down \/ e.collisions.up THEN 0
    ELSE Min(TERMINAL_VELOCITY, vy + e.gravity)

\* PhysicsEntity.update, "Flip sprite on turn around"
turn(e, movement) ==
    IF movement[1] > 0 THEN FALSE
    ELSE IF movement[1] < 0 THEN TRUE ELSE e.flip

\* an update that resolves the Y displacement before the X displacement
update_y_first(e, tm, movement) ==
    Only({ Only({ Only({ Only({
        [e2 EXCEPT !.velocity = <<e.velocity[1], fall_velocity(e2, e.velocity[2])>>,
                   !.flip = turn(e, movement),
                   !.last_movement = movement]
      : e2 \in {x_pass(e1, tm, fm[1])} })
      : e1 \in {y_pass(e0, tm, fm[2])} })
      : e0 \in {reset_collisions(e)} })
      : fm \in {frame_movement(e, movement)} })

\* PhysicsEntity.update(tilemap, movement): the entity after one step
update(e, tm, movement) ==
    Only({ Only({ Only({ Only({
        [e2 EXCEPT !.velocity = <<e.velocity[1], fall_velocity(e2, e.velocity[2])>>,
                   !.flip = turn(e, movement),
                   !.last_movement = movement]
      : e2 \in {y_pass(e1, tm, fm[2])} })
      : e1 \in {x_pass(e0, tm, fm[1])} })
      : e0 \in {reset_collisions(e)} })
      : fm \in {frame_movement(e, movement)} })

\* ------------------------------------------------------------------------
\* Player: constants.  Velocities and distances are in fixed point (SCALE);
\* wall_jump_timer and dash_timer, which the program multiplies by 1.5 and
\* divides by 2, are kept in units of 1/TIMER_SCALE of a tick, so that both
\* operations are exact
\* ------------------------------------------------------------------------
TIMER_SCALE == 1024
DEPTHS_Y == 400
DEPTHS_X == -300
MOVEMENT_X_SCALE == 1800
JUMP_Y_VEL == -5050
NUM_AIR_JUMPS == 1
AIR_JUMP_Y_VEL == -4600
NUM_AIR_DASHES == 1
VARIABLE_JUMP_SHEAR == 12
LOW_GRAV_THRESHOLD == 600
LOW_GRAV_DIVISOR == 13
DASH_X_SCALE == 4000
DASH_TICK == 14
DASH_COOLDOWN_TICK == 26
WALL_SLIDE_VEL == 1350
WALL_JUMP_Y == -4600
WALL_JUMP_TICK_CUTOFF == 8
WALL_JUMP_TICK_STALL == 2
WALL_JUMP_BUFFER == 10

\* Player.__init__: the fields of PhysicsEntity and those of the player.  The
\* fields that only drive sounds and particles (running_time, falling_time,
\* air_jumping, anim_offset) are left out; dash_type has no value before the
\* first dash
NewPlayer(pos, size) ==
    NewEntity(pos, size) @@
    [intangibility_timer |-> 0, entity_x_colliding |-> -1, entity_collision |-> FALSE,
     can_update |-> TRUE, can_move |-> TRUE, death_counter |-> 0,
     has_wings |-> FALSE, has_claw |-> FALSE, air_time |-> -10,
     wall_jump_timer |-> 0, sliding_time |-> 0, wall_slide |-> FALSE,
     wall_slide_timer |-> 1, wall_slide_right |-> FALSE, wall_slide_x_pos |-> 0,
     jumps |-> NUM_AIR_JUMPS, wall_jump_direction |-> FALSE,
     has_dash |-> FALSE, has_cloak |-> FALSE, dashes |-> NUM_AIR_DASHES,
     dash_timer |-> 0, cloak_timer |-> 0, dash_cooldown_timer |-> 0,
     dash_type |-> "none",
     holding_up |-> FALSE, looking_up |-> FALSE, holding_down |-> FALSE,
     looking_down |-> FALSE, holding_left |-> FALSE, holding_right |-> FALSE,
     idle_timer |-> 0]

\* Rect.center: the centre of a rectangle, in whole pixels
center(r) == <<r.x + r.w \div 2, r.y + r.h \div 2>>

\* Tilemap.tile_below(pos), pos in whole pixels: the type of the tile one
\* cell below the cell of pos; Player.update reads a missing tile as 'air'
tile_below(tm, pos) ==
    LET cell == <<pos[1] \div TILE_SIZE, pos[2] \div TILE_SIZE + 1>>
    IN IF cell \in DOMAIN tm THEN tm[cell].type ELSE "air"

\* a shaping in which the dash comes before the override of the wall jump
shape_movement_dash_first(p, movement) ==
    IF Abs(p.dash_timer) > 0
    THEN <<(IF p.dash_timer > 0 THEN 1 ELSE -1) * DASH_X_SCALE, movement[2] * SCALE>>
    ELSE IF p.wall_jump_timer < WALL_JUMP_TICK_CUTOFF * TIMER_SCALE
    THEN <<IF p.wall_jump_direction THEN MOVEMENT_X_SCALE ELSE -MOVEMENT_X_SCALE,
           movement[2] * SCALE>>
    ELSE IF p.wall_jump_timer < (WALL_JUMP_TICK_CUTOFF + WALL_JUMP_TICK_STALL) * TIMER_SCALE
    THEN <<0, movement[2] * SCALE>>
    ELSE <<movement[1] * MOVEMENT_X_SCALE, movement[2] * SCALE>>

\* Player.update, "MOVEMENT": the requested movement as overridden after a
\* wall jump, during a dash, or scaled to the walking speed.  movement is the
\* pair handed in by the game loop, in whole units
shape_movement(p, movement) ==
    IF p.wall_jump_timer < WALL_JUMP_TICK_CUTOFF * TIMER_SCALE
    THEN <<IF p.wall_jump_direction THEN MOVEMENT_X_SCALE ELSE -MOVEMENT_X_SCALE,
           movement[2] * SCALE>>
    ELSE IF p.wall_jump_timer < (WALL_JUMP_TICK_CUTOFF + WALL_JUMP_TICK_STALL) * TIMER_SCALE
    THEN <<0, movement[2] * SCALE>>
    ELSE IF Abs(p.dash_timer) > 0
    THEN <<(IF p.dash_timer > 0 THEN 1 ELSE -1) * DASH_X_SCALE, movement[2] * SCALE>>
    ELSE <<movement[1] * MOVEMENT_X_SCALE, movement[2] * SCALE>>

\* a low gravity that does not wait for the player to have left the ground
set_gravity_low_on_ground(p) ==
    IF Abs(p.dash_timer) > 0
    THEN [p EXCEPT !.gravity = 0, !.velocity = <<p.velocity[1], 0>>]
    ELSE IF /\ p.velocity[2] > -LOW_GRAV_THRESHOLD
            /\ p.velocity[2] < LOW_GRAV_THRESHOLD
    THEN [p EXCEPT !.gravity = FDiv(GRAVITY_CONST * 10, LOW_GRAV_DIVISOR)]
    ELSE [p EXCEPT !.gravity = GRAVITY_CONST]

\* Player.update, "Suspend gravity completely while dashing" and "Minimize
\* gravity at the peak of player jump": the player with its gravity chosen
set_gravity(p) ==
    IF Abs(p.dash_timer) > 0
    THEN [p EXCEPT !.gravity = 0, !.velocity = <<p.velocity[1], 0>>]
    ELSE IF /\ p.air_time > AIRTIME_BUFFER
            /\ p.velocity[2] > -LOW_GRAV_THRESHOLD
            /\ p.velocity[2] < LOW_GRAV_THRESHOLD
    THEN [p EXCEPT !.gravity = FDiv(GRAVITY_CONST * 10, LOW_GRAV_DIVISOR)]
    ELSE [p EXCEPT !.gravity = GRAVITY_CONST]

\* Player.update, "Check for entity collision from left or right"
entity_contact(p) ==
    [p EXCEPT !.entity_collision = p.entity_x_colliding \in {0, 1},
              !.collisions.left = p.collisions.left \/ p.entity_x_colliding = 0,
              !.collisions.right = p.collisions.right \/ p.entity_x_colliding = 1,
              !.entity_x_colliding = -1]

\* Player.update, "Void out and death warp": the player is below the level,
\* or stands on spikes
hazard(p, tm) ==
    \/ p.pos[2] > DEPTHS_Y * SCALE /\ p.pos[1] > DEPTHS_X * SCALE
    \/ p.pos[2] > DEPTHS_Y * 4 * SCALE
    \/ tile_below(tm, center(entity_rect(p))) = "spikes" /\ p.collisions.down

\* Player.update, "Update control variables"
advance_timers(p) ==
    [p EXCEPT !.air_time = @ + 1,
              !.wall_jump_timer = @ + TIMER_SCALE,
              !.dash_cooldown_timer = @ + 1,
              !.wall_slide_timer = @ + 1,
              !.wall_slide = FALSE,
              !.cloak_timer = IF @ > 0 THEN @ + 1 ELSE @]

\* a restore that refills the dash but not the jump
restore_on_ground_dash_only(p) ==
    IF p.collisions.down
    THEN [p EXCEPT !.dashes = NUM_AIR_DASHES, !.air_time = 0]
    ELSE p

\* Player.update, "Reset mobility upon touching ground"
restore_on_ground(p) ==
    IF p.collisions.down
    THEN [p EXCEPT !.jumps = NUM_AIR_JUMPS, !.dashes = NUM_AIR_DASHES, !.air_time = 0]
    ELSE p

\* a restore on any contact with a wall, sliding or not
restore_on_wall_contact(p) ==
    IF p.collisions.left \/ p.collisions.right
    THEN [p EXCEPT !.jumps = NUM_AIR_JUMPS, !.dashes = NUM_AIR_DASHES]
    ELSE p

\* Player.update, "Reset mobility upon grabbing wall"
restore_on_wall(p) ==
    IF p.sliding_time > 0
    THEN [p EXCEPT !.jumps = NUM_AIR_JUMPS, !.dashes = NUM_AIR_DASHES]
    ELSE p

\* a decay that stalls while the player touches a wall
dash_decay_stalls_at_wall(p) ==
    IF p.collisions.left \/ p.collisions.right THEN p
    ELSE LET t1 == IF p.dash_timer > 0 THEN Max(0, p.dash_timer - TIMER_SCALE) ELSE p.dash_timer
             t2 == IF t1 < 0 THEN Min(0, t1 + TIMER_SCALE) ELSE t1
         IN [p EXCEPT !.dash_timer = t2]

\* Player.update, "Decrement dash timer towards 0 from both sides"
dash_decay(p) ==
    LET t1 == IF p.dash_timer > 0 THEN Max(0, p.dash_timer - TIMER_SCALE) ELSE p.dash_timer
        t2 == IF t1 < 0 THEN Min(0, t1 + TIMER_SCALE) ELSE t1
    IN [p EXCEPT !.dash_timer = t2]

\* a condition of the wall slide that does not ask for the claw
wall_slide_cond_no_claw(p) ==
    /\ p.collisions.right \/ p.collisions.left
    /\ p.air_time > AIRTIME_BUFFER
    /\ p.velocity[2] > 0
    /\ ~p.entity_collision
    /\ p.dash_cooldown_timer > 1

\* Player.update, the condition of the "WALL SLIDE" branch
wall_slide_cond(p) ==
    /\ p.collisions.right \/ p.collisions.left
    /\ p.air_time > AIRTIME_BUFFER
    /\ p.velocity[2] > 0
    /\ p.has_claw
    /\ ~p.entity_collision
    /\ p.dash_cooldown_timer > 1

\* Player.update, the body of the "WALL SLIDE" branch
wall_slide_step(p) ==
    LET right == p.collisions.right
        st == p.sliding_time + 1
    IN [p EXCEPT !.wall_slide = TRUE,
                 !.wall_slide_timer = 0,
                 !.wall_slide_right = right,
                 !.sliding_time = st,
                 !.wall_slide_x_pos = IF st = 1 THEN p.pos[1] ELSE @,
                 !.dash_timer = FDiv(@, 2),
                 !.velocity = <<p.velocity[1], Min(p.velocity[2], WALL_SLIDE_VEL)>>,
                 !.action = "wall_slide",
                 !.flip = ~right]

\* an animation that looks at the requested movement before the state of
\* the body
animate_run_first(p, movement) ==
    LET q == [p EXCEPT !.looking_down = FALSE, !.looking_up = FALSE, !.idle_timer = 0] IN
    IF ~q.can_move THEN q
    ELSE IF movement[1] # 0 /\ ~q.collisions.left /\ ~q.collisions.right
    THEN [q EXCEPT !.action = "run"]
    ELSE IF wall_slide_cond(q) THEN wall_slide_step(q)
    ELSE IF Abs(q.dash_timer) > 0 THEN [q EXCEPT !.action = q.dash_type]
    ELSE IF q.air_time > AIRTIME_BUFFER
    THEN [q EXCEPT !.action = IF q.velocity[2] < 0 THEN "jump" ELSE "fall"]
    ELSE IF q.holding_up
    THEN [q EXCEPT !.looking_up = TRUE, !.action = "look_up", !.idle_timer = p.idle_timer + 1]
    ELSE IF q.holding_down
    THEN [q EXCEPT !.looking_down = TRUE, !.action = "look_down",
                   !.idle_timer = p.idle_timer + 1]
    ELSE [q EXCEPT !.action = "idle", !.idle_timer = p.idle_timer + 1]

\* Player.update, "ANIMATION HEIRARCHY": the first branch that applies, and
\* the idle_timer, which counts the updates in a row that have chosen one
\* of the three idling branches.  movement is the movement as shaped at the
\* top of update
animate(p, movement) ==
    LET q == [p EXCEPT !.looking_down = FALSE, !.looking_up = FALSE, !.idle_timer = 0] IN
    IF ~q.can_move THEN q
    ELSE IF wall_slide_cond(q) THEN wall_slide_step(q)
    ELSE IF Abs(q.dash_timer) > 0 THEN [q EXCEPT !.action = q.dash_type]
    ELSE IF q.air_time > AIRTIME_BUFFER
    THEN [q EXCEPT !.action = IF q.velocity[2] < 0 THEN "jump" ELSE "fall"]
    ELSE IF movement[1] # 0 /\ ~q.collisions.left /\ ~q.collisions.right
    THEN [q EXCEPT !.action = "run"]
    ELSE IF q.holding_up
    THEN [q EXCEPT !.looking_up = TRUE, !.action = "look_up", !.idle_timer = p.idle_timer + 1]
    ELSE IF q.holding_down
    THEN [q EXCEPT !.looking_down = TRUE, !.action = "look_down",
                   !.idle_timer = p.idle_timer + 1]
    ELSE [q EXCEPT !.action = "idle", !.idle_timer = p.idle_timer + 1]

\* a release on any move away from the place of the grip
auto_release_either_side(p) ==
    IF p.sliding_time > 1 /\ p.pos[1] # p.wall_slide_x_pos
    THEN [p EXCEPT !.wall_slide = FALSE, !.sliding_time = 0,
                   !.wall_slide_timer = WALL_JUMP_BUFFER]
    ELSE p

\* Player.update, "Cancel wall slide when player x pos goes behind wall"
auto_release(p) ==
    IF /\ p.sliding_time > 1
       /\ \/ p.wall_slide_right /\ p.pos[1] > p.wall_slide_x_pos
          \/ ~p.wall_slide_right /\ p.pos[1] < p.wall_slide_x_pos
    THEN [p EXCEPT !.wall_slide = FALSE, !.sliding_time = 0,
                   !.wall_slide_timer = WALL_JUMP_BUFFER]
    ELSE p

\* Player.update, "Ensure no lingering sound effects": the slide count is
\* cleared when the player with the claw is not sliding
clear_slide(p) ==
    IF ~p.wall_slide /\ p.has_claw THEN [p EXCEPT !.sliding_time = 0] ELSE p

\* an update that chooses the action before it lets dash_timer decay
player_update_animate_first(p, tm, movement) ==
    Only({ Only({ Only({ Only({ Only({ Only({ Only({ Only({ Only({ Only({ Only({ Only({
        [player |-> p10, damage_fade_out |-> hazard(p3, tm)]
      : p10 \in {clear_slide(p9)} })
      : p9 \in {auto_release(p8)} })
      : p8 \in {dash_decay(p7)} })
      : p7 \in {animate(p6, m)} })
      : p6 \in {restore_on_wall(p5)} })
      : p5 \in {restore_on_ground(p4)} })
      : p4 \in {advance_timers(p3)} })
      : p3 \in {entity_contact(p2)} })
      : p2 \in {IF p1.can_move THEN update(p1, tm, m) ELSE p1} })
      : p1 \in {set_gravity(p)} })
      : m \in {IF Abs(p.dash_timer) > 0 THEN <<m0[1], 0>> ELSE m0} })
      : m0 \in {shape_movement(p, movement)} })

\* an update that runs the integrator whether the player can move or not
player_update_always_integrates(p, tm, movement) ==
    Only({ Only({ Only({ Only({ Only({ Only({ Only({ Only({ Only({ Only({ Only({ Only({
        [player |-> p10, damage_fade_out |-> hazard(p3, tm)]
      : p10 \in {clear_slide(p9)} })
      : p9 \in {auto_release(p8)} })
      : p8 \in {animate(p7, m)} })
      : p7 \in {dash_decay(p6)} })
      : p6 \in {restore_on_wall(p5)} })
      : p5 \in {restore_on_ground(p4)} })
      : p4 \in {advance_timers(p3)} })
      : p3 \in {entity_contact(p2)} })
      : p2 \in {update(p1, tm, m)} })
      : p1 \in {set_gravity(p)} })
      : m \in {IF Abs(p.dash_timer) > 0 THEN <<m0[1], 0>> ELSE m0} })
      : m0 \in {shape_movement(p, movement)} })

\* Player.update(tilemap, movement): the player after one tick, and whether
\* the tick has asked the game for the damage fade-out
player_update(p, tm, movement) ==
    Only({ Only({ Only({ Only({ Only({ Only({ Only({ Only({ Only({ Only({ Only({ Only({
        [player |-> p10, damage_fade_out |-> hazard(p3, tm)]
      : p10 \in {clear_slide(p9)} })
      : p9 \in {auto_release(p8)} })
      : p8 \in {animate(p7, m)} })
      : p7 \in {dash_decay(p6)} })
      : p6 \in {restore_on_wall(p5)} })
      : p5 \in {restore_on_ground(p4)} })
      : p4 \in {advance_timers(p3)} })
      : p3 \in {entity_contact(p2)} })
      : p2 \in {IF p1.can_move THEN update(p1, tm, m) ELSE p1} })
      : p1 \in {set_gravity(p)} })
      : m \in {IF Abs(p.dash_timer) > 0 THEN <<m0[1], 0>> ELSE m0} })
      : m0 \in {shape_movement(p, movement)} })

\* a condition of the wall jump that asks for a slide at the time of the call
can_wall_jump_sliding_only(p) ==
    /\ p.wall_slide
    /\ p.has_claw
    /\ p.wall_jump_timer > (WALL_JUMP_BUFFER + 4) * TIMER_SCALE

\* Player.jump, the condition of the wall jump
can_wall_jump(p) ==
    /\ p.wall_slide_timer < WALL_JUMP_BUFFER
    /\ p.has_claw
    /\ p.wall_jump_timer > (WALL_JUMP_BUFFER + 4) * TIMER_SCALE

\* Player.jump, the branch that a call takes: the wall jump, the branch of
\* the jump in mid-air, the jump from the ground, or none
jump_kind(p) ==
    IF can_wall_jump(p) THEN "wall"
    ELSE IF p.jumps # 0 /\ p.dash_timer = 0
    THEN IF p.air_time > AIRTIME_BUFFER * 2 THEN "air" ELSE "ground"
    ELSE "none"

\* Player.jump: the wall jump, the jump in mid-air (with the wings) or the
\* jump from the ground; ok is the value returned
jump(p) ==
    IF can_wall_jump(p)
    THEN [ok |-> TRUE,
          player |-> [p EXCEPT !.wall_jump_direction = ~p.wall_slide_right,
                               !.wall_jump_timer = 0,
                               !.velocity = <<p.velocity[1], WALL_JUMP_Y>>,
                               !.air_time = AIRTIME_BUFFER + 1]]
    ELSE IF p.jumps # 0 /\ p.dash_timer = 0
    THEN IF p.air_time > AIRTIME_BUFFER * 2
         THEN [ok |-> TRUE,
               player |-> IF p.has_wings
                          THEN [p EXCEPT !.jumps = Min(0, p.jumps - 1),
                                         !.velocity = <<p.velocity[1], AIR_JUMP_Y_VEL>>,
                                         !.air_time = AIRTIME_BUFFER + 1]
                          ELSE [p EXCEPT !.air_time = AIRTIME_BUFFER + 1]]
         ELSE [ok |-> TRUE,
               player |-> [p EXCEPT !.velocity = <<p.velocity[1], JUMP_Y_VEL>>,
                                    !.air_time = AIRTIME_BUFFER + 1]]
    ELSE [ok |-> FALSE, player |-> p]

\* Player.jump_release: the rising speed is cut and wall_jump_timer grows by
\* half
jump_release(p) ==
    IF p.velocity[2] < 0
    THEN [p EXCEPT !.velocity =
                       <<p.velocity[1],
                         IF p.wall_jump_timer > WALL_JUMP_TICK_CUTOFF * TIMER_SCALE
                         THEN FDiv(p.velocity[2], VARIABLE_JUMP_SHEAR)
                         ELSE FDiv(p.velocity[2] * 4, VARIABLE_JUMP_SHEAR)>>,
                   !.wall_jump_timer = FDiv(@ * 3, 2),
                   !.gravity = GRAVITY_CONST]
    ELSE p

\* Player.dash, the condition under which a dash starts
can_dash(p) ==
    /\ p.has_dash
    /\ p.dash_timer = 0
    /\ p.dashes # 0
    /\ p.wall_jump_timer > (WALL_JUMP_TICK_CUTOFF + WALL_JUMP_TICK_STALL) * TIMER_SCALE
    /\ p.dash_cooldown_timer > DASH_COOLDOWN_TICK

\* a dash that leaves the cool-down running from where it was
dash_keeps_cooldown(p) ==
    IF can_dash(p)
    THEN [ok |-> TRUE,
          player |-> [p EXCEPT !.dashes = Min(0, p.dashes - 1),
                               !.dash_timer =
                                   IF \/ p.sliding_time > AIRTIME_BUFFER + 2 /\ p.wall_slide_right
                                      \/ p.sliding_time <= AIRTIME_BUFFER + 2 /\ p.flip
                                   THEN -DASH_TICK * TIMER_SCALE
                                   ELSE DASH_TICK * TIMER_SCALE,
                               !.sliding_time = 0,
                               !.dash_type = IF p.has_cloak THEN "cloak" ELSE "dash",
                               !.cloak_timer = IF p.has_cloak THEN 1 ELSE @]]
    ELSE [ok |-> FALSE, player |-> p]

\* Player.dash: the dash starts, to the left or to the right, and the
\* cool-down starts at -DASH_TICK; ok is TRUE when the dash started (the
\* program returns None otherwise)
dash(p) ==
    IF can_dash(p)
    THEN [ok |-> TRUE,
          player |-> [p EXCEPT !.dashes = Min(0, p.dashes - 1),
                               !.dash_timer =
                                   IF \/ p.sliding_time > AIRTIME_BUFFER + 2 /\ p.wall_slide_right
                                      \/ p.sliding_time <= AIRTIME_BUFFER + 2 /\ p.flip
                                   THEN -DASH_TICK * TIMER_SCALE
                                   ELSE DASH_TICK * TIMER_SCALE,
                               !.sliding_time = 0,
                               !.dash_cooldown_timer = -DASH_TICK,
                               !.dash_type = IF p.has_cloak THEN "cloak" ELSE "dash",
                               !.cloak_timer = IF p.has_cloak THEN 1 ELSE @]]
    ELSE [ok |-> FALSE, player |-> p]

\* Player.hitstun_animation
hitstun_animation(p) == [p EXCEPT !.action = "hitstun", !.can_move = FALSE]

\* ------------------------------------------------------------------------
\* Collectable.  A collectable is a record; id stands for the identity of the
\* object.  The world of an update is w = [player, game, collectables]: the
\* player, the fields of Game, and the list Game.collectables.  The timers
\* and flags that only drive sounds and the alert sprite of a grub
\* (idle_noise_timer, alert_noise_timer, shade_noise_timer, alerted) are left
\* out
\* ------------------------------------------------------------------------
COLLECTABLE_SIZES ==
    [respawn |-> <<16, 16>>, grub |-> <<30, 30>>, cloak_pickup |-> <<16, 16>>,
     claw_pickup |-> <<18, 18>>, wings_pickup |-> <<22, 14>>, saw |-> <<30, 30>>,
     gate |-> <<8, 32>>, lever |-> <<16, 14>>, dash_pickup |-> <<16, 16>>,
     shade_gate |-> <<16, 32>>, slippery_rock |-> <<8, 32>>]

COLLECTABLE_OFFSETS ==
    [respawn |-> <<0, 1>>, grub |-> <<0, 11>>, saw |-> <<0, 0>>, gate |-> <<0, 0>>,
     lever |-> <<0, 0>>, dash_pickup |-> <<0, 0>>, claw_pickup |-> <<0, 0>>,
     wings_pickup |-> <<0, 0>>, cloak_pickup |-> <<0, 0>>, shade_gate |-> <<0, 0>>,
     slippery_rock |-> <<0, 0>>]

\* the types t for which type[-6:] == 'pickup'
PickupTypes == {"dash_pickup", "claw_pickup", "wings_pickup", "cloak_pickup"}

\* Collectable.__init__, pos in whole pixels: the offset position is
\* overwritten by PhysicsEntity.__init__, which stores pos as given
NewCollectable(id, pos, c_type, x_collisions) ==
    [id |-> id, type |-> c_type, pos |-> <<pos[1] * SCALE, pos[2] * SCALE>>,
     size |-> COLLECTABLE_SIZES[c_type], x_collisions |-> x_collisions,
     collect_timer |-> 0, action |-> "idle"]

\* the place in a list of collectables of the one with identity id, 0 if none
IndexOf(cs, id) ==
    IF \E k \in 1..Len(cs) : cs[k].id = id
    THEN CHOOSE k \in 1..Len(cs) : cs[k].id = id
    ELSE 0

\* list.remove: the list without its element at k
RemoveAt(cs, k) == [j \in 1..(Len(cs) - 1) |-> IF j < k THEN cs[j] ELSE cs[j + 1]]

\* Collectable.collect, "Collide with player": the player is pushed out of a
\* solid collectable, to its left or to its right
push_player(p, prect, crect) ==
    IF center(prect)[1] < center(crect)[1]
    THEN [p EXCEPT !.collisions.right = TRUE, !.entity_x_colliding = 0,
                   !.pos = <<(crect.x - prect.w) * SCALE, p.pos[2]>>]
    ELSE [p EXCEPT !.collisions.left = TRUE, !.entity_x_colliding = 1,
                   !.pos = <<(crect.x + crect.w) * SCALE, p.pos[2]>>]

\* a pickup that grants every ability
grant_all(p, type) ==
    [p EXCEPT !.has_dash = TRUE, !.has_claw = TRUE, !.has_wings = TRUE, !.has_cloak = TRUE]

\* Collectable.collect, "If item is an ability pickup item"
grant(p, type) ==
    [p EXCEPT !.has_dash = @ \/ type = "dash_pickup",
              !.has_claw = @ \/ type = "claw_pickup",
              !.has_wings = @ \/ type = "wings_pickup",
              !.has_cloak = @ \/ type = "cloak_pickup"]

\* a collect that restarts the timer on every frame of contact
collect_restarts(w, k, prect) ==
    [w EXCEPT !.collectables[k].action = "collect",
              !.collectables[k].collect_timer = 1]

\* Collectable.collect of the collectable at k of w.collectables; prect is
\* the player rectangle that update has read
collect(w, k, prect) ==
    LET c == w.collectables[k]
        g1 == IF c.type = "respawn" THEN [w.game EXCEPT !.player_spawn_pos = c.pos] ELSE w.game
        c1 == IF c.type \in {"grub", "lever"} THEN [c EXCEPT !.action = "collect"] ELSE c
        p1 == IF c.x_collisions THEN push_player(w.player, prect, entity_rect(c)) ELSE w.player
    IN IF c.type \in PickupTypes
       THEN [player |-> grant(p1, c.type), game |-> g1,
             collectables |-> RemoveAt(w.collectables, k)]
       ELSE [player |-> p1, game |-> g1,
             collectables |-> [w.collectables EXCEPT ![k] =
                                  [c1 EXCEPT !.collect_timer = IF @ < 1 THEN 1 ELSE @]]]

\* the square of the distance between the centres of two rectangles
Dist2(a, b) ==
    LET dx == center(a)[1] - center(b)[1]
        dy == center(a)[2] - center(b)[2]
    IN dx * dx + dy * dy

\* a lever that opens the first gate of the list
first_gate(cs, lever) ==
    LET gates == {k \in 1..Len(cs) : cs[k].type = "gate"}
    IN IF gates = {} THEN 0
       ELSE CHOOSE k \in gates : \A j \in gates : k <= j

\* Collectable.update of a lever, "Open nearest gate after delay": the place
\* of the first gate of the list that no other gate is closer than, 0 if
\* the list holds no gate (gate_list[0] then raises IndexError)
closest_gate(cs, lever) ==
    LET gates == {k \in 1..Len(cs) : cs[k].type = "gate"}
        d(k) == Dist2(entity_rect(lever), entity_rect(cs[k]))
    IN IF gates = {} THEN 0
       ELSE CHOOSE k \in gates : \A j \in gates : d(k) < d(j) \/ (d(k) = d(j) /\ k <= j)

\* a checkpoint that holds on every update from the second on
grub_checkpoint_every_tick(c) == c.type = "grub" /\ c.collect_timer >= 2

\* Collectable.update of a grub, "Glass break and fades out": the update in
\* which the glass breaks and the grub is counted
grub_checkpoint(c) == c.type = "grub" /\ c.collect_timer = 2

\* an update whose shade gate keeps the collision flag it was built with
after_contact_keeps_flag(w, c, dist2) ==
    LET t == c.collect_timer
        k == IndexOf(w.collectables, c.id)
        g1 == IF c.type = "saw" /\ dist2 < (COLLECTABLE_SIZES.saw[1] - 10) * (COLLECTABLE_SIZES.saw[1] - 10)
              THEN [w.game EXCEPT !.damage_fade_out = TRUE] ELSE w.game
        gk == closest_gate(w.collectables, c)
        cs2 == IF c.type = "lever" /\ t = 60 /\ gk > 0
               THEN [w.collectables EXCEPT ![gk].action = "drop", ![gk].x_collisions = FALSE]
               ELSE w.collectables
        g2 == IF c.type = "lever" /\ t = 60 /\ gk = 0 THEN [g1 EXCEPT !.crashed = TRUE] ELSE g1
        cs3 == IF c.type = "grub" /\ t = 0 /\ k > 0 THEN [cs2 EXCEPT ![k].action = "idle"] ELSE cs2
        g3 == IF grub_checkpoint(c) THEN [g2 EXCEPT !.grubs_collected = @ + 1] ELSE g2
    IN [player |-> w.player, game |-> g3, collectables |-> cs3]

\* Collectable.update, the part after the contact test: the saw, the shade
\* gate, the lever and the grub.  k is the place of the collectable in
\* w.collectables, t its collect_timer, dist2 the squared distance to the
\* player that update has measured
after_contact(w, c, dist2) ==
    LET t == c.collect_timer
        k == IndexOf(w.collectables, c.id)
        g1 == IF c.type = "saw" /\ dist2 < (COLLECTABLE_SIZES.saw[1] - 10) * (COLLECTABLE_SIZES.saw[1] - 10)
              THEN [w.game EXCEPT !.damage_fade_out = TRUE] ELSE w.game
        cs1 == IF c.type = "shade_gate" /\ k > 0
               THEN [w.collectables EXCEPT ![k].x_collisions =
                        ~(w.player.cloak_timer > 0 /\ w.player.cloak_timer < DASH_TICK)]
               ELSE w.collectables
        gk == closest_gate(cs1, c)
        cs2 == IF c.type = "lever" /\ t = 60 /\ gk > 0
               THEN [cs1 EXCEPT ![gk].action = "drop", ![gk].x_collisions = FALSE]
               ELSE cs1
        g2 == IF c.type = "lever" /\ t = 60 /\ gk = 0 THEN [g1 EXCEPT !.crashed = TRUE] ELSE g1
        cs3 == IF c.type = "grub" /\ t = 0 /\ k > 0 THEN [cs2 EXCEPT ![k].action = "idle"] ELSE cs2
        g3 == IF grub_checkpoint(c) THEN [g2 EXCEPT !.grubs_collected = @ + 1] ELSE g2
    IN [player |-> w.player, game |-> g3, collectables |-> cs3]

\* Collectable.update() of the collectable with identity id, which is in
\* w.collectables when its update starts
collectable_update(w, id) ==
    Only({ Only({ Only({ Only({ Only({ Only({ Only({ Only({ Only({ Only({
        after_contact(w2, c2, d2)
      : d2 \in {Dist2(rect, prect)} })
      : c2 \in {IF k2 > 0 THEN w2.collectables[k2] ELSE c1} })
      : k2 \in {IndexOf(w2.collectables, id)} })
      : w2 \in {IF colliderect(rect, prect) THEN collect(w1, k, prect) ELSE w1} })
      : prect \in {entity_rect(w.player)} })
      : rect \in {entity_rect(c1)} })
      : w1 \in {[w EXCEPT !.collectables[k] = c1]} })
      : c1 \in {[c0 EXCEPT !.collect_timer = IF @ > 0 THEN @ + 1 ELSE @]} })
      : c0 \in {w.collectables[k]} })
      : k \in {IndexOf(w.collectables, id)} })

\* a pass over the list itself, whose places shift when a collectable leaves
RECURSIVE update_collectables_live(_, _, _)
update_collectables_live(w, ids, i) ==
    IF i > Len(w.collectables) \/ w.game.crashed THEN w
    ELSE Only({ Only({ update_collectables_live(
                           [w1 EXCEPT !.game.updated = Append(@, id)], ids, i + 1)
                     : w1 \in {collectable_update(w, id)} })
              : id \in {w.collectables[i].id} })

\* Game.run, "Update and render collectables": update() of every collectable
\* of a copy of the list, in order.  ids is the copy, i the place reached;
\* game.updated records the identities whose update() the pass has called
RECURSIVE update_collectables(_, _, _)
update_collectables(w, ids, i) ==
    IF i > Len(ids) \/ w.game.crashed THEN w
    ELSE Only({ update_collectables([w1 EXCEPT !.game.updated = Append(@, ids[i])], ids, i + 1)
              : w1 \in {collectable_update(w, ids[i])} })

\* ------------------------------------------------------------------------
\* Game.  game holds the fields of Game that the loop reads and writes;
\* crashed records that an exception has ended the program, updated the
\* calls of Collectable.update that the last pass has made.  Rendering, the
\* camera, the sounds, the particles and the HUD are left out
\* ------------------------------------------------------------------------
FADE_SPEED == 8
FIRST_SCENE_FRAMES == 25
FIRST_SCENE_FADE == 10
INTANGIBILITY_FRAMES == 60

\* Game.__init__ and Game.load_map of a map whose player spawner is at spawn
\* (whole pixels)
NewGame(spawn) ==
    [damage_fade_in |-> FALSE, damage_fade_out |-> FALSE, blackout_alpha |-> 255,
     grubs_collected |-> 0,
     player_spawn_pos |-> <<spawn[1] * SCALE, spawn[2] * SCALE>>,
     world_spawn_pos |-> <<spawn[1] * SCALE, spawn[2] * SCALE>>,
     playing_timer |-> 0, player_movement |-> <<FALSE, FALSE>>, crashed |-> FALSE,
     updated |-> << >>]

\* a warp to the anchor itself, without the offset of the respawn point
death_warp_no_offset(p, g) ==
    [p EXCEPT !.can_update = TRUE,
              !.pos = g.player_spawn_pos,
              !.velocity = <<p.velocity[1], 0>>,
              !.dash_timer = 0,
              !.gravity = GRAVITY_CONST,
              !.death_counter = @ + 1,
              !.action = "kneel"]

\* a warp that takes the abilities away
death_warp_loses_abilities(p, g) ==
    [p EXCEPT !.can_update = TRUE,
              !.pos = <<g.player_spawn_pos[1],
                        g.player_spawn_pos[2] + COLLECTABLE_OFFSETS.respawn[2] * SCALE>>,
              !.velocity = <<p.velocity[1], 0>>,
              !.dash_timer = 0,
              !.gravity = GRAVITY_CONST,
              !.death_counter = @ + 1,
              !.action = "kneel",
              !.has_dash = FALSE, !.has_claw = FALSE,
              !.has_wings = FALSE, !.has_cloak = FALSE]

\* Player.death_warp
death_warp(p, g) ==
    [p EXCEPT !.can_update = TRUE,
              !.pos = <<g.player_spawn_pos[1],
                        g.player_spawn_pos[2] + COLLECTABLE_OFFSETS.respawn[2] * SCALE>>,
              !.velocity = <<p.velocity[1], 0>>,
              !.dash_timer = 0,
              !.gravity = GRAVITY_CONST,
              !.death_counter = @ + 1,
              !.action = "kneel"]

\* a fade-out that also warps in the pass that brings the blackout to 255
fade_out_warps_early(w) ==
    IF ~w.game.damage_fade_out THEN w
    ELSE LET first == w.game.blackout_alpha > 0 /\ w.game.blackout_alpha <= FADE_SPEED
             g1 == IF first THEN [w.game EXCEPT !.player_movement = <<FALSE, FALSE>>] ELSE w.game
             p1 == IF first THEN hitstun_animation(w.player) ELSE w.player
         IN IF g1.blackout_alpha < 255
            THEN [w EXCEPT !.player = IF g1.blackout_alpha + FADE_SPEED >= 255
                                      THEN death_warp(p1, g1) ELSE p1,
                           !.game = [g1 EXCEPT !.blackout_alpha = Min(255, @ + FADE_SPEED)]]
            ELSE [w EXCEPT !.player = death_warp(p1, g1),
                           !.game = [g1 EXCEPT !.damage_fade_out = FALSE,
                                               !.damage_fade_in = TRUE]]

\* Game.run, "Freeze player when fading in or out from death warp", the
\* fade-out half
fade_out(w) ==
    IF ~w.game.damage_fade_out THEN w
    ELSE LET first == w.game.blackout_alpha > 0 /\ w.game.blackout_alpha <= FADE_SPEED
             g1 == IF first THEN [w.game EXCEPT !.player_movement = <<FALSE, FALSE>>] ELSE w.game
             p1 == IF first THEN hitstun_animation(w.player) ELSE w.player
         IN IF g1.blackout_alpha < 255
            THEN [w EXCEPT !.player = p1,
                           !.game = [g1 EXCEPT !.blackout_alpha = Min(255, @ + FADE_SPEED)]]
            ELSE [w EXCEPT !.player = death_warp(p1, g1),
                           !.game = [g1 EXCEPT !.damage_fade_out = FALSE,
                                               !.damage_fade_in = TRUE]]

\* Game.run, the fade-in half
fade_in(w) ==
    IF ~w.game.damage_fade_in THEN w
    ELSE LET a == w.game.blackout_alpha
             p1 == IF a = 255 THEN [w.player EXCEPT !.intangibility_timer = INTANGIBILITY_FRAMES]
                   ELSE w.player
             p2 == IF a < 70 THEN [p1 EXCEPT !.action = "idle"] ELSE p1
         IN IF a > 0
            THEN [w EXCEPT !.player = [p2 EXCEPT !.velocity = <<0, 0>>],
                           !.game.blackout_alpha = Max(0, a - (FADE_SPEED * 3) \div 2)]
            ELSE [w EXCEPT !.player = [p2 EXCEPT !.can_move = TRUE, !.air_time = -2,
                                                 !.action = "idle"],
                           !.game.damage_fade_in = FALSE]

\* Game.run, "Fade into first scene"
first_scene(w) ==
    IF w.game.playing_timer < FIRST_SCENE_FRAMES
    THEN [w EXCEPT !.game.blackout_alpha = @ - FIRST_SCENE_FADE, !.player.can_move = TRUE]
    ELSE w

\* Game.run, "Fix movement not being updated"
fix_movement(w) ==
    [w EXCEPT !.game.player_movement =
                  <<@[1] \/ w.player.holding_left, @[2] \/ w.player.holding_right>>]

\* an update of the player that moves the spawn anchor to the player
\* whenever the player touches the ground
update_player_anchors(w, tm) ==
    IF ~w.player.can_update THEN w
    ELSE LET pm == w.game.player_movement
             mv == IF w.player.can_move
                   THEN <<(IF pm[2] THEN 1 ELSE 0) - (IF pm[1] THEN 1 ELSE 0), 0>>
                   ELSE <<0, 0>>
         IN Only({ [w EXCEPT !.player = r.player,
                             !.game.damage_fade_out = @ \/ r.damage_fade_out,
                             !.game.player_spawn_pos =
                                 IF r.player.collisions.down THEN r.player.pos ELSE @]
                   : r \in {player_update(w.player, tm, mv)} })

\* Game.run, "Update player movement and animation"
update_player(w, tm) ==
    IF ~w.player.can_update THEN w
    ELSE LET pm == w.game.player_movement
             mv == IF w.player.can_move
                   THEN <<(IF pm[2] THEN 1 ELSE 0) - (IF pm[1] THEN 1 ELSE 0), 0>>
                   ELSE <<0, 0>>
         IN Only({ [w EXCEPT !.player = r.player,
                             !.game.damage_fade_out = @ \/ r.damage_fade_out]
                   : r \in {player_update(w.player, tm, mv)} })

\* Game.run: one pass of the loop after its events have been handled
frame(w, tm) ==
    Only({ Only({ Only({ Only({ Only({ Only({ Only({
        [w6 EXCEPT !.game.playing_timer = @ + 1]
      : w6 \in {update_collectables([w5 EXCEPT !.game.updated = << >>], ids, 1)} })
      : ids \in {[i \in 1..Len(w5.collectables) |-> w5.collectables[i].id]} })
      : w5 \in {update_player(w4, tm)} })
      : w4 \in {first_scene(w3)} })
      : w3 \in {fade_in(w2)} })
      : w2 \in {fade_out(w1)} })
      : w1 \in {fix_movement(w)} })

\* Game.run, "Keystroke down": the handler of a KEYDOWN event of key k, which
\* ignores the event while the player cannot move.  call and ok tell which
\* method of the player the handler has called and what it returned
key_down(w, k) ==
    LET none == [world |-> w, call |-> "", ok |-> TRUE]
        j == jump(w.player)
        d == dash(w.player)
    IN IF ~w.player.can_move THEN none
       ELSE CASE k = "left" ->
                   [none EXCEPT !.world.game.player_movement[1] = TRUE,
                                !.world.player.holding_left = TRUE]
              [] k = "right" ->
                   [none EXCEPT !.world.game.player_movement[2] = TRUE,
                                !.world.player.holding_right = TRUE]
              [] k = "up" -> [none EXCEPT !.world.player.holding_up = TRUE]
              [] k = "down" -> [none EXCEPT !.world.player.holding_down = TRUE]
              [] k = "space" ->
                   [world |-> [w EXCEPT !.player = j.player], call |-> "jump", ok |-> j.ok]
              [] k = "shift" ->
                   [world |-> [w EXCEPT !.player = d.player], call |-> "dash", ok |-> d.ok]
              [] k = "g" -> [none EXCEPT !.call = "grub_pointer"]
              [] k = "v" ->
                   [none EXCEPT !.world.player.has_dash = TRUE,
                                !.world.player.has_claw = TRUE,
                                !.world.player.has_wings = TRUE,
                                !.world.player.has_cloak = TRUE]
              [] k = "7" -> [none EXCEPT !.world.player.has_dash = TRUE]
              [] k = "8" -> [none EXCEPT !.world.player.has_claw = TRUE]
              [] k = "9" -> [none EXCEPT !.world.player.has_wings = TRUE]
              [] k = "0" -> [none EXCEPT !.world.player.has_cloak = TRUE]
              [] k = "backspace" ->
                   [none EXCEPT !.world.game.player_spawn_pos = w.game.world_spawn_pos,
                                !.world.game.damage_fade_out = TRUE]
              [] OTHER -> none

\* Game.run, "Keystroke up": the handler of a KEYUP event of key k
key_up(w, k) ==
    LET none == [world |-> w, call |-> "", ok |-> TRUE] IN
    CASE k = "left" ->
            [none EXCEPT !.world.game.player_movement[1] = FALSE,
                         !.world.player.holding_left = FALSE]
      [] k = "right" ->
            [none EXCEPT !.world.game.player_movement[2] = FALSE,
                         !.world.player.holding_right = FALSE]
      [] k = "up" -> [none EXCEPT !.world.player.holding_up = FALSE]
      [] k = "down" -> [none EXCEPT !.world.player.holding_down = FALSE]
      [] k = "space" ->
            [world |-> [w EXCEPT !.player = jump_release(w.player)],
             call |-> "jump_release", ok |-> TRUE]
      [] OTHER -> none

\* n passes of the loop without events, or as many as the program survives
RECURSIVE frames(_, _, _)
frames(w, tm, n) ==
    IF n = 0 \/ w.game.crashed THEN w
    ELSE IF n = 1 THEN frame(w, tm)
    ELSE Only({ frames(w1, tm, n - (n \div 2)) : w1 \in {frames(w, tm, n \div 2)} })

\* ------------------------------------------------------------------------
\* State
\* ------------------------------------------------------------------------
VARIABLES
    tilemap,      \* Tilemap.tilemap, the grid of the level
    ent,          \* a PhysicsEntity stepped on its own
    ent0,         \* observation: ent as it was before its last step
    steps,        \* observation: the number of steps (frames) taken
    landed,       \* observation: a step of ent has set collisions.down
    player,       \* Game.player
    game,         \* the fields of Game
    collectables, \* Game.collectables
    player0,      \* observation: player as it was before the last step
    game0,        \* observation: game as it was before the last step
    collectables0, \* observation: collectables as they were before the
                  \* last step
    last,         \* observation: the last step: its kind, the key of the
                  \* event, the method of the player it called and the
                  \* value that returned
    events,       \* observation: the number of input events handled
    dashlog       \* observation: age, the number of Player.update calls
                  \* since the last dash that started (-1 before the
                  \* first), gap, the age at which it started, and quiet,
                  \* no event has arrived since it started
VARIABLES
    track         \* observation, kept (on) in the behaviours that start with
                  \* the program: ground and walljump, the number of
                  \* Player.update calls since the last one that ended with
                  \* collisions.down and since the last wall jump (-1 when
                  \* there was none); airjumps and dashes, the number of
                  \* jumps in mid-air and of dashes that have started since
                  \* the last update that restored them

VARIABLES
    offgrid_tiles, \* Tilemap.offgrid_tiles, the loose objects of the level
    ret           \* observation: the last call of a method of the Tilemap
                  \* made on its own: the method, its arguments, the grid
                  \* and the loose objects before it, the value it
                  \* returned and whether it raised an exception

vars == <<tilemap, ent, ent0, steps, landed, player, game, collectables,
          player0, game0, collectables0, last, events, dashlog, track,
          offgrid_tiles, ret>>

\* the variables of the Tilemap methods called on their own
mapvars == <<offgrid_tiles, ret>>

\* the variables of the entity stepped on its own, and those of the game
entvars == <<ent, ent0, landed>>
gamevars == <<player, game, collectables, player0, game0, collectables0, last,
              events, dashlog, track>>

\* nothing observed: track as the program starts, off and on
NoTrack == [on |-> FALSE, ground |-> -1, walljump |-> -1, airjumps |-> 0, dashes |-> 0,
            seq0 |-> -1, hits |-> 0, done |-> -1, rest |-> -2]
FreshTrack == [NoTrack EXCEPT !.on = TRUE]
RestTrack == [NoTrack EXCEPT !.on = TRUE, !.rest = -1]

\* no method of the Tilemap called on its own
NoRet == [call |-> "", pos |-> <<0, 0>>, id_pairs |-> {}, keep |-> FALSE,
          tilemap0 |-> << >>, offgrid_tiles0 |-> << >>, value |-> << >>,
          raised |-> FALSE]

\* the map variables of a specification that calls no such method
NoMap ==
    /\ offgrid_tiles = << >>
    /\ ret = NoRet

\* the game variables of a specification that steps an entity on its own
NoGame ==
    /\ player = NewPlayer(<<0, 0>>, PLAYER_SIZE)
    /\ game = NewGame(<<0, 0>>)
    /\ collectables = << >>
    /\ player0 = player
    /\ game0 = game
    /\ collectables0 = collectables
    /\ last = [kind |-> "init", key |-> "", call |-> "", ok |-> TRUE]
    /\ events = 0
    /\ dashlog = [age |-> -1, gap |-> -1, quiet |-> FALSE]
    /\ track = NoTrack

\* the entity variables of a specification of the game
NoEntity ==
    /\ ent = NewEntity(<<0, 0>>, PLAYER_SIZE)
    /\ ent0 = ent
    /\ landed = FALSE

\* the rectangles of all solid tiles of the grid
SolidRects ==
    {Rect(tilemap[loc].pos[1] * TILE_SIZE, tilemap[loc].pos[2] * TILE_SIZE, TILE_SIZE, TILE_SIZE) :
        loc \in {l \in DOMAIN tilemap : tilemap[l].type \in PHYSICS_TILES}}

\* ------------------------------------------------------------------------
\* The integrator on its own: PhysicsEntity.update applied to an entity of
\* the player's size, from a range of positions and velocities around the
\* tiles of a few small grids.  The first step takes any requested movement
\* of Moves, the later ones request none.
\* ------------------------------------------------------------------------
MaxSteps == 2
PosStep == 2700
PosSpan == 10
Positions == {q * PosStep : q \in -PosSpan..PosSpan}
Velocities == {0, 5000}
Moves == {-15900, -1800, 0, 1800, 15900}

PhysMaps ==
    { MakeTilemap({Tile("grass", 0, 0)}),
      MakeTilemap({Tile("stone", -1, -1)}),
      MakeTilemap({Tile("grass", -1, 0), Tile("grass", 0, 0), Tile("decor", 0, -1)}),
      MakeTilemap({Tile("grass", -1, 0), Tile("spikes", 0, 0), Tile("stone", 0, -1)}) }

PhysInit ==
    /\ tilemap \in PhysMaps
    /\ \E x \in Positions, y \in Positions, vy \in Velocities :
          ent = [NewEntity(<<x, y>>, PLAYER_SIZE) EXCEPT !.velocity = <<0, vy>>]
    /\ \A T \in SolidRects : ~colliderect(entity_rect(ent), T)
    /\ ent0 = ent
    /\ steps = 0
    /\ landed = FALSE
    /\ NoGame
    /\ NoMap

PhysStep ==
    /\ steps < MaxSteps
    /\ \E m \in (IF steps = 0 THEN Moves \X Moves ELSE {<<0, 0>>}) :
          ent' = update(ent, tilemap, m)
    /\ ent0' = ent
    /\ steps' = steps + 1
    /\ landed' = (landed \/ ent'.collisions.down)
    /\ UNCHANGED <<tilemap, gamevars, mapvars>>

PhysNext == PhysStep

SpecPhys == PhysInit /\ [][PhysNext]_vars

\* the displacement of the last step of ent
LastFm == frame_movement(ent0, ent.last_movement)

\* the spans of two rectangles overlap on the Y axis, on the X axis
YOverlap(a, b) == a.y < b.y + b.h /\ a.y + a.h > b.y
XOverlap(a, b) == a.x < b.x + b.w /\ a.x + a.w > b.x

\* C1 (no tunneling): for every solid tile T and every step whose
\* displacement on an axis is less than one tile width, an entity that was
\* short of T on that axis and in line with it ends the step short of T or
\* flush against its near edge, and so never past its far edge.
C1_NoTunneling ==
    steps >= 1 =>
        \A T \in SolidRects :
            LET r0 == entity_rect(ent0)
                r1 == entity_rect(ent)
                fm == LastFm
            IN /\ (fm[1] > 0 /\ fm[1] < TILE_SIZE * SCALE /\ r0.x + r0.w <= T.x /\ YOverlap(r0, T))
                    => (r1.x + r1.w <= T.x /\ ~(r1.x >= T.x + T.w))
               /\ (fm[1] < 0 /\ -fm[1] < TILE_SIZE * SCALE /\ r0.x >= T.x + T.w /\ YOverlap(r0, T))
                    => (r1.x >= T.x + T.w /\ ~(r1.x + r1.w <= T.x))
               /\ (fm[2] > 0 /\ fm[2] < TILE_SIZE * SCALE /\ r0.y + r0.h <= T.y /\ XOverlap(r1, T))
                    => (r1.y + r1.h <= T.y /\ ~(r1.y >= T.y + T.h))
               /\ (fm[2] < 0 /\ -fm[2] < TILE_SIZE * SCALE /\ r0.y >= T.y + T.h /\ XOverlap(r1, T))
                    => (r1.y >= T.y + T.h /\ ~(r1.y + r1.h <= T.y))

\* C1 witness: a step of more than 15 px toward a tile that would have
\* carried the box into the tile ended clamped flush against its near edge
C1_Witness ==
    /\ steps >= 1
    /\ \E T \in SolidRects :
          LET r0 == entity_rect(ent0)
              r1 == entity_rect(ent)
          IN /\ LastFm[1] > 15 * SCALE /\ LastFm[1] < TILE_SIZE * SCALE
             /\ r0.x + r0.w <= T.x /\ YOverlap(r0, T)
             /\ Trunc(ent0.pos[1] + LastFm[1]) + r0.w > T.x
             /\ r1.x + r1.w = T.x
             /\ ent.collisions.right

\* the box of ent0 overlaps a solid tile
Embedded0 == \E T \in SolidRects : colliderect(entity_rect(ent0), T)

\* the last step of ent was taken at rest: zero velocity, no requested movement
AtRest0 == steps >= 1 /\ ent0.velocity = <<0, 0>> /\ ent.last_movement = <<0, 0>>

\* C3 as stated (resolution idempotence): a step at rest leaves the position
\* and each of the four collision flags as they were, and changes only the
\* vertical velocity, to min(TERMINAL_VELOCITY, gravity).
C3_Original ==
    AtRest0 =>
        /\ ent.pos = ent0.pos
        /\ ent.collisions = ent0.collisions
        /\ ent.velocity = <<0, Min(TERMINAL_VELOCITY, ent0.gravity)>>

\* C3 as amended: a step at rest of an entity whose box overlaps no solid
\* tile leaves the position as it was, ends with all four collision flags
\* false whatever they were before, and changes the vertical velocity to
\* min(TERMINAL_VELOCITY, gravity); nothing else changes.
C3_RestStep ==
    (AtRest0 /\ ~Embedded0) =>
        /\ ent.pos = ent0.pos
        /\ ent.collisions = NoCollisions
        /\ ent.velocity = <<0, Min(TERMINAL_VELOCITY, ent0.gravity)>>
        /\ ent.flip = ent0.flip /\ ent.gravity = ent0.gravity /\ ent.size = ent0.size

\* C3 witness: an entity that had just landed (collisions.down set, velocity
\* zero) took a step with no requested movement
C3_Witness ==
    /\ AtRest0
    /\ ent0.collisions.down
    /\ ~ent.collisions.down
    /\ ent.pos = ent0.pos

\* the box after the X displacement of the last step alone
BoxAfterX == Rect(Trunc(ent0.pos[1] + LastFm[1]), Trunc(ent0.pos[2]), ent0.size[1], ent0.size[2])

\* the box at the resolved X after the Y displacement of the last step
BoxAfterY == Rect(Trunc(ent.pos[1]), Trunc(ent0.pos[2] + LastFm[2]), ent0.size[1], ent0.size[2])

\* the box after both displacements of the last step, nothing resolved
BoxUnresolved ==
    Rect(Trunc(ent0.pos[1] + LastFm[1]), Trunc(ent0.pos[2] + LastFm[2]), ent0.size[1], ent0.size[2])

\* C4 (corner priority): on a grid with a single solid tile T and a diagonal
\* displacement, left/right are set exactly when the box overlaps T after
\* the X displacement alone, and up/down exactly when the box, at its
\* resolved X, still overlaps T after the Y displacement.
C4_CornerPriority ==
    (steps = 1 /\ Cardinality(SolidRects) = 1 /\ LastFm[1] # 0 /\ LastFm[2] # 0) =>
        \A T \in SolidRects :
            /\ ent.collisions.right = (LastFm[1] > 0 /\ colliderect(BoxAfterX, T))
            /\ ent.collisions.left = (LastFm[1] < 0 /\ colliderect(BoxAfterX, T))
            /\ ent.collisions.down = (LastFm[2] > 0 /\ colliderect(BoxAfterY, T))
            /\ ent.collisions.up = (LastFm[2] < 0 /\ colliderect(BoxAfterY, T))

\* C4 witness: a diagonal step down and to the right into the corner of the
\* single tile, which the box cleared on neither axis before the step: the X
\* pass took the contact (right) and the Y pass found none (down unset)
C4_Witness ==
    /\ steps = 1 /\ Cardinality(SolidRects) = 1
    /\ LastFm[1] > 0 /\ LastFm[2] > 0
    /\ \A T \in SolidRects :
          /\ ~colliderect(entity_rect(ent0), T)
          /\ colliderect(BoxUnresolved, T)
          /\ colliderect(BoxAfterX, T)
          /\ entity_rect(ent0).y + ent0.size[2] > T.y
    /\ ent.collisions.right
    /\ ~ent.collisions.down

\* ------------------------------------------------------------------------
\* Coming to rest: an entity of the player's size released with zero
\* velocity RestGap px above a single solid tile, anywhere over the tile,
\* and stepped with no requested movement.  The tile lies in a row above,
\* at or below the origin (pygame.Rect truncates toward zero, so negative
\* and positive coordinates are different cases).
\* ------------------------------------------------------------------------
MaxRestSteps == 14
RestGap == 2
RestRows == {-3, 0, 3}
RestXs == {x * SCALE : x \in -7..15}

RestInit ==
    /\ \E r \in RestRows, x \in RestXs :
          /\ tilemap = MakeTilemap({Tile("grass", 0, r)})
          /\ ent = NewEntity(<<x, (r * TILE_SIZE - PLAYER_SIZE[2] - RestGap) * SCALE>>, PLAYER_SIZE)
    /\ ent0 = ent
    /\ steps = 0
    /\ landed = FALSE
    /\ NoGame
    /\ NoMap

RestStep ==
    /\ steps < MaxRestSteps
    /\ ent' = update(ent, tilemap, <<0, 0>>)
    /\ ent0' = ent
    /\ steps' = steps + 1
    /\ landed' = (landed \/ ent'.collisions.down)
    /\ UNCHANGED <<tilemap, gamevars, mapvars>>

RestNext == RestStep

\* a step as seen on the step counter: RestStep is the only action, every
\* RestStep is a RestTick, and both are enabled exactly while steps is below
\* its bound
RestTick == steps < MaxRestSteps /\ steps' = steps + 1

\* the frame loop never stops stepping the entity
SpecRest == RestInit /\ [][RestNext]_vars /\ WF_steps(RestTick)

\* C2 as stated (grounded rest): the entity reaches a tick with
\* collisions.down, and at the end of every tick from then on its vertical
\* velocity is 0.
C2_Original ==
    /\ <>(ent.collisions.down)
    /\ [](landed => ent.velocity[2] = 0)

\* C2 as amended: the entity reaches a tick with collisions.down; from then
\* on every tick ends with the box flush on the tile, and with vertical
\* velocity 0 if the tick set collisions.down and otherwise the gravity of
\* at most AIRTIME_BUFFER - 1 ticks (contact is re-made only when the
\* accumulated fall reaches a whole pixel).
C2_GroundedRest ==
    /\ <>(ent.collisions.down)
    /\ [](landed =>
            /\ \A T \in SolidRects : entity_rect(ent).y + ent.size[2] = T.y
            /\ ent.collisions.down => ent.velocity[2] = 0
            /\ ~ent.collisions.down =>
                  /\ ent.velocity[2] > 0
                  /\ ent.velocity[2] <= (AIRTIME_BUFFER - 1) * GRAVITY_CONST)

\* C2 witness: after landing, a tick ended without contact and with the
\* gravity of three ticks as vertical velocity
C2_Witness ==
    /\ landed
    /\ ~ent.collisions.down
    /\ ent.velocity[2] = (AIRTIME_BUFFER - 1) * GRAVITY_CONST
    /\ \A T \in SolidRects : entity_rect(ent).y + ent.size[2] = T.y

\* ------------------------------------------------------------------------
\* The game: the loop of Game.run with its keyboard events, in a small room.
\* The room has a floor, two walls and a low ceiling over its left part.  A
\* behaviour starts after WarmFrames passes of the loop without events, the
\* abilities having been unlocked by the keys V, 7, 8, 9 or 0 before the
\* first pass; then it takes up to MaxEvents events and MaxTicks passes.
\* ------------------------------------------------------------------------
WarmFrames == 40
MaxTicks == 12
MaxEvents == 2

RoomTiles ==
    {Tile("grass", gx, 1) : gx \in -4..4} \cup
    {Tile("stone", -4, gy) : gy \in -3..0} \cup
    {Tile("stone", 4, gy) : gy \in -3..0} \cup
    {Tile("stone", gx, -1) : gx \in -3..-1}

Room == MakeTilemap(RoomTiles)

\* the places of the player spawner, in whole pixels
Spawns == {<<8, 2>>, <<40, 2>>}

\* the keys pressed before the first pass
Unlocks == {<<"v">>, <<"8", "9">>}

RECURSIVE press_all(_, _, _)
press_all(w, keys, i) ==
    IF i > Len(keys) THEN w
    ELSE Only({ press_all(w1, keys, i + 1) : w1 \in {key_down(w, keys[i]).world} })

\* the game as loaded from a map with the player spawner at spawn and the
\* collectables cs
loaded(spawn, cs) ==
    [player |-> NewPlayer(<<spawn[1] * SCALE, spawn[2] * SCALE>>, PLAYER_SIZE),
     game |-> NewGame(spawn),
     collectables |-> cs]

PlayKeysDown == {"left", "right", "space", "shift"}
PlayKeysUp == {"left", "space"}

PlayInit ==
    /\ tilemap = Room
    /\ \E spawn \in Spawns, keys \in Unlocks :
          LET w == frames(press_all(loaded(spawn, << >>), keys, 1), tilemap, WarmFrames)
          IN /\ player = w.player
             /\ game = w.game
             /\ collectables = w.collectables
    /\ player0 = player
    /\ game0 = game
    /\ collectables0 = collectables
    /\ last = [kind |-> "init", key |-> "", call |-> "", ok |-> TRUE]
    /\ events = 0
    /\ dashlog = [age |-> -1, gap |-> -1, quiet |-> FALSE]
    /\ track = NoTrack
    /\ steps = 0
    /\ NoEntity
    /\ NoMap

\* the world of the current state
World == [player |-> player, game |-> game, collectables |-> collectables]

\* the state after a step that leaves the world w
Becomes(w) ==
    /\ player' = w.player
    /\ game' = w.game
    /\ collectables' = w.collectables
    /\ player0' = player
    /\ game0' = game
    /\ collectables0' = collectables
    /\ UNCHANGED <<tilemap, entvars, mapvars>>

\* the player of w is within the radius of a saw, or below the level, or
\* stands on spikes
in_contact(w, tm) ==
    \/ hazard(w.player, tm)
    \/ \E k \in 1..Len(w.collectables) :
          /\ w.collectables[k].type = "saw"
          /\ Dist2(entity_rect(w.collectables[k]), entity_rect(w.player))
                < (COLLECTABLE_SIZES.saw[1] - 10) * (COLLECTABLE_SIZES.saw[1] - 10)

\* track after a pass of the loop that leaves the world w: the pass has
\* called Player.update, which restores the jump and the dash when it ends
\* with collisions.down or has started with sliding_time > 0.  A damage
\* sequence runs from the step that sets game.damage_fade_out while none is
\* running to the pass in which the fade-in ends: seq0 is death_counter at
\* its start (-1 when none is running, -2 when it began before the first
\* step), hits the passes of its fade-out that ended with the player in
\* contact with a hazard, and done the death warps of the sequence that the
\* last step has ended (-1 when it has ended none)
PassTrack(w) ==
    IF ~track.on \/ ~player.can_update THEN track
    ELSE LET restored == w.player.collisions.down \/ player.sliding_time > 0
             closed == game.damage_fade_in /\ ~w.game.damage_fade_in
             opened == w.game.damage_fade_out /\ (closed \/ track.seq0 = -1)
         IN [track EXCEPT !.ground = IF w.player.collisions.down THEN 0
                                     ELSE IF @ >= 0 THEN @ + 1 ELSE @,
                          !.walljump = IF @ >= 0 THEN @ + 1 ELSE @,
                          !.airjumps = IF restored THEN 0 ELSE @,
                          !.dashes = IF restored THEN 0 ELSE @,
                          !.seq0 = IF opened THEN w.player.death_counter
                                   ELSE IF closed THEN -1 ELSE @,
                          !.hits = IF opened THEN 0
                                   ELSE IF /\ w.game.damage_fade_out
                                           /\ ~w.game.damage_fade_in
                                           /\ in_contact(w, tilemap)
                                   THEN @ + 1 ELSE @,
                          !.done = IF closed /\ track.seq0 >= 0
                                   THEN w.player.death_counter - track.seq0 ELSE -1]

\* the pass that leads to w had no horizontal input and no damage sequence
\* running, and it has left the player standing still on the ground: no
\* horizontal movement, no dash under way, collisions.down set
Idle(w) ==
    /\ ~player.holding_left /\ ~player.holding_right
    /\ game.player_movement = <<FALSE, FALSE>>
    /\ player.can_update /\ player.can_move
    /\ ~game.damage_fade_out /\ ~game.damage_fade_in
    /\ ~w.game.damage_fade_out /\ ~w.game.damage_fade_in

Still(w) ==
    /\ Idle(w)
    /\ w.player.collisions.down
    /\ w.player.last_movement[1] = 0
    /\ w.player.dash_timer = 0

\* track after a pass of the loop that leads to w, with rest, where it is
\* observed: the number of passes since the one that left the player
\* standing still on the ground, without an input or a damage sequence
\* since; -1 when there is no such pass, -2 when rest is not observed
TickTrack(w) ==
    IF ~track.on THEN track
    ELSE [PassTrack(w) EXCEPT
            !.rest = IF @ = -2 THEN -2
                     ELSE IF ~Idle(w) THEN -1
                     ELSE IF @ >= 0 THEN @ + 1
                     ELSE IF Still(w) THEN 0 ELSE -1]

\* track after the handler of a KEYDOWN event has returned r
PressTrack(r) ==
    IF ~track.on THEN track
    ELSE [track EXCEPT
            !.walljump = IF r.call = "jump" /\ jump_kind(player) = "wall" THEN 0 ELSE @,
            !.airjumps = IF /\ r.call = "jump"
                            /\ jump_kind(player) = "air"
                            /\ r.world.player.velocity[2] = AIR_JUMP_Y_VEL
                         THEN @ + 1 ELSE @,
            !.dashes = IF r.call = "dash" /\ r.ok THEN @ + 1 ELSE @,
            !.seq0 = IF @ = -1 /\ r.world.game.damage_fade_out
                     THEN player.death_counter ELSE @,
            !.hits = IF track.seq0 = -1 /\ r.world.game.damage_fade_out THEN 0 ELSE @,
            !.done = -1,
            !.rest = IF @ = -2 THEN -2
                     ELSE IF r.call \in {"jump", "dash"} \/ r.world.game # game
                     THEN -1 ELSE @]

\* one pass of the loop of Game.run, the n-th at most
Tick(n) ==
    /\ steps < n
    /\ ~game.crashed
    /\ \E w \in {frame(World, tilemap)} : Becomes(w) /\ track' = TickTrack(w)
    /\ last' = [kind |-> "frame", key |-> "", call |-> "", ok |-> TRUE]
    /\ steps' = steps + 1
    /\ dashlog' = IF player.can_update /\ dashlog.age >= 0
                  THEN [dashlog EXCEPT !.age = @ + 1] ELSE dashlog
    /\ UNCHANGED events

\* a KEYDOWN event of key k reaches the event loop, the n-th event at most
Press(k, n) ==
    /\ events < n
    /\ ~game.crashed
    /\ \E r \in {key_down(World, k)} :
          /\ Becomes(r.world)
          /\ last' = [kind |-> "keydown", key |-> k, call |-> r.call, ok |-> r.ok]
          /\ track' = PressTrack(r)
          /\ dashlog' = IF r.call = "dash" /\ r.ok
                        THEN [age |-> 0, gap |-> dashlog.age, quiet |-> TRUE]
                        ELSE [dashlog EXCEPT !.quiet = FALSE]
    /\ events' = events + 1
    /\ UNCHANGED steps

\* a KEYUP event of key k reaches the event loop, the n-th event at most
Release(k, n) ==
    /\ events < n
    /\ ~game.crashed
    /\ \E r \in {key_up(World, k)} :
          /\ Becomes(r.world)
          /\ last' = [kind |-> "keyup", key |-> k, call |-> r.call, ok |-> r.ok]
    /\ events' = events + 1
    /\ dashlog' = [dashlog EXCEPT !.quiet = FALSE]
    /\ UNCHANGED <<steps, track>>

Frame == Tick(MaxTicks)

KeyDown(k) == Press(k, MaxEvents)

KeyUp(k) == Release(k, MaxEvents)

PlayNext ==
    \/ Frame
    \/ \E k \in PlayKeysDown : KeyDown(k)
    \/ \E k \in PlayKeysUp : KeyUp(k)

SpecPlay == PlayInit /\ [][PlayNext]_vars

\* the last step was a pass of the loop, and so one Player.update
Ticked == last.kind = "frame"

\* C5 (resource replenishment): every Player.update whose resolution leaves
\* collisions.down set ends with jumps = NUM_AIR_JUMPS and dashes =
\* NUM_AIR_DASHES; in particular the first such update after a jump in
\* mid-air has brought jumps to 0, or a dash has brought dashes to 0.
C5_Replenish ==
    (Ticked /\ player.collisions.down) =>
        (player.jumps = NUM_AIR_JUMPS /\ player.dashes = NUM_AIR_DASHES)

\* a jump in mid-air has brought jumps to 0, and the update just taken is
\* the first since that has touched the ground
C5_Witness ==
    /\ Ticked
    /\ player0.jumps = 0
    /\ ~player0.collisions.down
    /\ player.collisions.down
    /\ player.jumps = NUM_AIR_JUMPS
    /\ player.dashes = NUM_AIR_DASHES

\* C6 (dash monotonic decay): a dash that starts sets dash_timer to DASH_TICK
\* or -DASH_TICK; while dash_timer is not 0, every Player.update moves it
\* exactly one tick toward 0 without changing its sign, whatever keys are
\* held and whatever the player touches, and no event changes it.
C6_DashDecay ==
    /\ (last.call = "dash" /\ last.ok) =>
          Abs(player.dash_timer) = DASH_TICK * TIMER_SCALE
    /\ (Ticked /\ player0.dash_timer > 0) =>
          player.dash_timer = player0.dash_timer - TIMER_SCALE
    /\ (Ticked /\ player0.dash_timer < 0) =>
          player.dash_timer = player0.dash_timer + TIMER_SCALE
    /\ (~Ticked /\ last.kind # "init" /\ player0.dash_timer # 0) =>
          player.dash_timer = player0.dash_timer

\* an update in the middle of a dash that has run into a wall
C6_Witness ==
    /\ Ticked
    /\ Abs(player0.dash_timer) > TIMER_SCALE
    /\ Abs(player.dash_timer) = Abs(player0.dash_timer) - TIMER_SCALE
    /\ player.collisions.left \/ player.collisions.right

\* ------------------------------------------------------------------------
\* The dash over a long run: a level with a long floor and a ledge high
\* above it.  The player spawns on the floor or on the ledge, with the dash
\* alone (key 7) or with every ability (key V); a dash from the ledge leaves
\* it and the fall that follows lasts longer than the cool-down.  A player
\* with the claw alone (key 8) has no dash to start.
\* ------------------------------------------------------------------------
MaxDashTicks == 42
MaxDashEvents == 2

LedgeTiles ==
    {Tile("grass", gx, 1) : gx \in -12..6} \cup
    {Tile("stone", gx, -10) : gx \in -2..1}

Ledge == MakeTilemap(LedgeTiles)

DashSpawns == {<<8, 2>>, <<8, -174>>}

DashUnlocks == {<<"7">>, <<"v">>, <<"8">>}

DashKeys == {"shift"}

DashInit ==
    /\ tilemap = Ledge
    /\ \E spawn \in DashSpawns, keys \in DashUnlocks :
          LET w == frames(press_all(loaded(spawn, << >>), keys, 1), tilemap, WarmFrames)
          IN /\ player = w.player
             /\ game = w.game
             /\ collectables = w.collectables
    /\ player0 = player
    /\ game0 = game
    /\ collectables0 = collectables
    /\ last = [kind |-> "init", key |-> "", call |-> "", ok |-> TRUE]
    /\ events = 0
    /\ dashlog = [age |-> -1, gap |-> -1, quiet |-> FALSE]
    /\ track = NoTrack
    /\ steps = 0
    /\ NoEntity
    /\ NoMap

DashFrame == Tick(MaxDashTicks)

DashKeyDown(k) == Press(k, MaxDashEvents)

DashNext ==
    \/ DashFrame
    \/ \E k \in DashKeys : DashKeyDown(k)

SpecDash == DashInit /\ [][DashNext]_vars

\* the last step was a call of Player.dash
DashCalled == last.call = "dash"

\* C7 (dash cannot be re-triggered and fails silently): a call of dash made
\* while dash_timer is not 0, or while dash_cooldown_timer is at most
\* DASH_COOLDOWN_TICK, or without the dash ability, or without a dash
\* charge, starts no dash and leaves the player and the game as they were;
\* and a dash that starts after another has started does so at least
\* DASH_TICK + DASH_COOLDOWN_TICK + 1 updates after it.
C7_DashRefused ==
    /\ (/\ DashCalled
        /\ \/ player0.dash_timer # 0
           \/ player0.dash_cooldown_timer <= DASH_COOLDOWN_TICK
           \/ ~player0.has_dash
           \/ player0.dashes = 0)
       => (~last.ok /\ player = player0 /\ game = game0)
    /\ (DashCalled /\ last.ok /\ dashlog.gap >= 0)
       => dashlog.gap >= DASH_TICK + DASH_COOLDOWN_TICK + 1

\* a call of dash on the last update on which the cool-down of the dash
\* before still holds it back, the dash itself being over and its charge
\* restored: it is refused and changes nothing
C7_Witness ==
    /\ DashCalled
    /\ ~last.ok
    /\ dashlog.age = DASH_TICK + DASH_COOLDOWN_TICK
    /\ player0.dash_timer = 0
    /\ player0.dashes = NUM_AIR_DASHES
    /\ player0.has_dash
    /\ player0.dash_cooldown_timer = DASH_COOLDOWN_TICK
    /\ player = player0

\* the action of a dash under way
DashActions == {"dash", "cloak"}

\* a dash has started and no event has arrived since; dashlog.age is the
\* number of updates it has seen, the tick of the dash
QuietDash == dashlog.quiet /\ dashlog.age >= 0

\* C8 as stated (dash duration scenario): a dash that starts with dash_timer
\* at DASH_TICK = 14 and sees no new input has dash_timer at 0 for the first
\* time after 14 updates, has the dash or cloak action chosen on each of the
\* ticks 1 to 14, and on tick 15 has another action chosen for the first
\* time.
C8_Original ==
    QuietDash =>
        /\ dashlog.age < DASH_TICK => player.dash_timer # 0
        /\ dashlog.age = DASH_TICK => player.dash_timer = 0
        /\ (dashlog.age >= 1 /\ dashlog.age <= DASH_TICK) => player.action \in DashActions
        /\ dashlog.age = DASH_TICK + 1 => player.action \notin DashActions

\* C8 (dash duration scenario, amended): a dash that starts with dash_timer
\* at DASH_TICK = 14 and sees no new input has dash_timer at DASH_TICK less
\* the number of updates, so at 0 for the first time after 14 updates; the
\* dash or cloak action is chosen on each of the ticks 1 to 13, and tick 14,
\* the update that brings dash_timer to 0, is the first to choose another
\* action, as do the ticks after it.
C8_DashDuration ==
    QuietDash =>
        /\ dashlog.age <= DASH_TICK =>
              Abs(player.dash_timer) = (DASH_TICK - dashlog.age) * TIMER_SCALE
        /\ dashlog.age >= DASH_TICK => player.dash_timer = 0
        /\ (dashlog.age >= 1 /\ dashlog.age < DASH_TICK) => player.action = player.dash_type
        /\ dashlog.age = 0 => player.dash_type \in DashActions
        /\ dashlog.age >= DASH_TICK => player.action \notin DashActions

\* the fourteenth update of a dash without new input: the update before
\* chose the dash or cloak action, this one has brought dash_timer to 0 and
\* has chosen another action
C8_Witness ==
    /\ QuietDash
    /\ Ticked
    /\ dashlog.age = DASH_TICK
    /\ player0.action \in DashActions
    /\ Abs(player0.dash_timer) = TIMER_SCALE
    /\ player.dash_timer = 0
    /\ player.action \notin DashActions

\* ------------------------------------------------------------------------
\* The grubs: the room with a grub over the head of the player, whom a jump
\* takes up through it and out of it and, when the jump is cut short, soon
\* back down into it, and in one layout a second grub higher up, which only
\* a long jump reaches.  No grub touches the player before the first event.
\* ------------------------------------------------------------------------
MaxGrubTicks == 30
MaxGrubEvents == 2

GrubSpawn == <<40, 2>>

\* the grub spawners of a map, in whole pixels
GrubAbove == NewCollectable(1, <<12, -40>>, "grub", FALSE)
GrubHigh == NewCollectable(2, <<12, -78>>, "grub", FALSE)
GrubLayouts == {<<GrubAbove>>, <<GrubHigh, GrubAbove>>}

GrubKeysDown == {"space"}
GrubKeysUp == {"space"}

GrubInit ==
    /\ tilemap = Room
    /\ \E cs \in GrubLayouts :
          LET w == frames(loaded(GrubSpawn, cs), tilemap, WarmFrames)
          IN /\ player = w.player
             /\ game = w.game
             /\ collectables = w.collectables
    /\ player0 = player
    /\ game0 = game
    /\ collectables0 = collectables
    /\ last = [kind |-> "init", key |-> "", call |-> "", ok |-> TRUE]
    /\ events = 0
    /\ dashlog = [age |-> -1, gap |-> -1, quiet |-> FALSE]
    /\ track = NoTrack
    /\ steps = 0
    /\ NoEntity
    /\ NoMap

GrubFrame == Tick(MaxGrubTicks)

GrubKeyDown(k) == Press(k, MaxGrubEvents)

GrubKeyUp(k) == Release(k, MaxGrubEvents)

GrubNext ==
    \/ GrubFrame
    \/ \E k \in GrubKeysDown : GrubKeyDown(k)
    \/ \E k \in GrubKeysUp : GrubKeyUp(k)

SpecGrub == GrubInit /\ [][GrubNext]_vars

\* the places of the grubs in Game.collectables; no grub ever leaves the list
Grubs == {k \in 1..Len(collectables) : collectables[k].type = "grub"}

\* the grub at k overlaps the player as they are now, which after a pass of
\* the loop is as the update of the grub has found them
Touching(k) == colliderect(entity_rect(collectables[k]), entity_rect(player))

\* the grub at k overlapped the player as they were before the last step
Touching0(k) == colliderect(entity_rect(collectables0[k]), entity_rect(player0))

\* C9 (collectible single-trigger): game.grubs_collected is the number of
\* grubs whose collect_timer has reached 2, so each grub is counted once and
\* no more, however long and however often it overlaps the player; the
\* collect_timer of a grub leaves 0 only in an update in which the grub
\* overlaps the player and never goes back, so no grub is counted before
\* its first contact; and no event changes the count.
C9_SingleTrigger ==
    /\ Len(collectables) = Len(collectables0)
    /\ game.grubs_collected = Cardinality({k \in Grubs : collectables[k].collect_timer >= 2})
    /\ game.grubs_collected >= game0.grubs_collected
    /\ \A k \in Grubs :
          /\ collectables[k].collect_timer >= collectables0[k].collect_timer
          /\ (collectables0[k].collect_timer = 0 /\ collectables[k].collect_timer > 0)
                => (Ticked /\ Touching(k))
    /\ ~Ticked => game.grubs_collected = game0.grubs_collected

\* a grub that has been counted overlaps the player again after an update
\* in which it did not, and the count is still the one grub
C9_Witness ==
    /\ Ticked
    /\ game.grubs_collected = 1
    /\ \E k \in Grubs :
          /\ collectables[k].collect_timer > 2
          /\ Touching(k)
          /\ ~Touching0(k)

\* the grubs whose collect_timer was t before the last step
GrubsAt0(t) == {k \in Grubs : collectables0[k].collect_timer = t}

\* C10 as stated (grub checkpoint timing): with T the first update of a
\* grub in which it overlaps the player, game.grubs_collected is unchanged
\* at the end of T and of T + 1, is incremented by 1 during T + 2, and is
\* unchanged by that grub later.  The collect_timer of the grub is 1 at the
\* end of T and 2 at the end of T + 1.
C10_Original ==
    Ticked =>
        game.grubs_collected = game0.grubs_collected + Cardinality(GrubsAt0(2))

\* C10 (grub checkpoint timing, amended): with T the first update of a grub
\* in which it overlaps the player, that update takes its collect_timer
\* from 0 to 1 and every later update takes it one further; the count
\* game.grubs_collected is unchanged by the grub during T, is incremented by
\* 1 during T + 1, the update that takes collect_timer to 2, and is
\* unchanged by that grub during every later update.
C10_GrubTiming ==
    Ticked =>
        /\ \A k \in GrubsAt0(0) :
              collectables[k].collect_timer = IF Touching(k) THEN 1 ELSE 0
        /\ \A k \in Grubs \ GrubsAt0(0) :
              collectables[k].collect_timer = collectables0[k].collect_timer + 1
        /\ game.grubs_collected = game0.grubs_collected + Cardinality(GrubsAt0(1))

\* the update after the first in which a grub overlaps the player: it has
\* taken collect_timer from 1 to 2 and has counted the grub
C10_Witness ==
    /\ Ticked
    /\ game.grubs_collected = game0.grubs_collected + 1
    /\ \E k \in Grubs :
          /\ collectables0[k].collect_timer = 1
          /\ collectables[k].collect_timer = 2

\* ------------------------------------------------------------------------
\* A level with a tall wall and, far below, a floor at its foot; the player
\* spawner is beside the wall, in mid-air.
\* ------------------------------------------------------------------------
ShaftTiles ==
    {Tile("stone", -1, gy) : gy \in -8..9} \cup
    {Tile("grass", gx, 9) : gx \in 0..3}

Shaft == MakeTilemap(ShaftTiles)

\* ------------------------------------------------------------------------
\* The start of the program in that level.  A behaviour starts with the
\* program, before the first pass of the loop, the wings having been unlocked
\* (key 9); track is on.  The player is constructed
\* over the floor, high enough to reach TERMINAL_VELOCITY before it lands;
\* the events are the jump and the death warp asked with BACKSPACE.
\* ------------------------------------------------------------------------
MaxFreshTicks == 27
MaxFreshEvents == 2

FreshSpawn == <<0, 65>>
FreshUnlocks == {<<"9">>}

FreshKeysDown == {"space", "backspace"}

FreshInit ==
    /\ tilemap = Shaft
    /\ \E keys \in FreshUnlocks :
          \E w \in {press_all(loaded(FreshSpawn, << >>), keys, 1)} :
             /\ player = w.player
             /\ game = w.game
             /\ collectables = w.collectables
    /\ player0 = player
    /\ game0 = game
    /\ collectables0 = collectables
    /\ last = [kind |-> "init", key |-> "", call |-> "", ok |-> TRUE]
    /\ events = 0
    /\ dashlog = [age |-> -1, gap |-> -1, quiet |-> FALSE]
    /\ track = FreshTrack
    /\ steps = 0
    /\ NoEntity
    /\ NoMap

FreshFrame == Tick(MaxFreshTicks)

FreshKeyDown(k) == Press(k, MaxFreshEvents)

FreshNext ==
    \/ FreshFrame
    \/ \E k \in FreshKeysDown : FreshKeyDown(k)

SpecFresh == FreshInit /\ [][FreshNext]_vars

\* ------------------------------------------------------------------------
\* The fall along the wall.  The player spawns high in the shaft with LEFT
\* held, toward the wall, and with every ability (key V), with the dash and
\* the wings (keys 7 and 9) or with none.  A behaviour starts after
\* WarmFrames passes of the loop without events: the player with the claw is
\* sliding down the wall, the others fall beside it at TERMINAL_VELOCITY a few
\* ticks above the floor, and none has touched the floor, jumped or dashed,
\* so that track starts as it does with the program.
\* ------------------------------------------------------------------------
MaxFallTicks == 8
MaxFallEvents == 2

FallSpawn == <<0, -20>>
FallUnlocks == {<<"v", "left">>, <<"7", "9", "left">>, <<"left">>}

FallKeysDown == {"space", "shift", "backspace"}
FallKeysUp == {"space", "left"}

FallInit ==
    /\ tilemap = Shaft
    /\ \E keys \in FallUnlocks :
          \E w \in {frames(press_all(loaded(FallSpawn, << >>), keys, 1), tilemap, WarmFrames)} :
             /\ player = w.player
             /\ game = w.game
             /\ collectables = w.collectables
    /\ player0 = player
    /\ game0 = game
    /\ collectables0 = collectables
    /\ last = [kind |-> "init", key |-> "", call |-> "", ok |-> TRUE]
    /\ events = 0
    /\ dashlog = [age |-> -1, gap |-> -1, quiet |-> FALSE]
    /\ track = FreshTrack
    /\ steps = 0
    /\ NoEntity
    /\ NoMap

FallFrame == Tick(MaxFallTicks)

FallKeyDown(k) == Press(k, MaxFallEvents)

FallKeyUp(k) == Release(k, MaxFallEvents)

FallNext ==
    \/ FallFrame
    \/ \E k \in FallKeysDown : FallKeyDown(k)
    \/ \E k \in FallKeysUp : FallKeyUp(k)

SpecFall == FallInit /\ [][FallNext]_vars

\* the world before the last step, and the world that the last pass of the
\* loop handed to Player.update: the one left by the fades of that pass
World0 == [player |-> player0, game |-> game0, collectables |-> collectables0]

Pre == first_scene(fade_in(fade_out(fix_movement(World0))))

\* the last step was a pass of the loop whose Player.update ran the
\* integrator (PhysicsEntity.update)
Integrated == Ticked /\ Pre.player.can_update /\ Pre.player.can_move

\* the last step was a pass of the loop during hitstun: Player.update was
\* called while can_move was false
Stunned == Ticked /\ Pre.player.can_update /\ ~Pre.player.can_move

\* the vertical velocity with which the integrator of the last pass started
\* (Player.update zeroes it during a dash), and the one it must end with:
\* zero after a vertical collision, else the sum with the gravity of the
\* tick, capped
VyIn == IF Pre.player.dash_timer # 0 THEN 0 ELSE Pre.player.velocity[2]

VyRule ==
    IF player.collisions.down \/ player.collisions.up THEN 0
    ELSE Min(TERMINAL_VELOCITY, VyIn + player.gravity)

\* the last step was a call of Player.jump
JumpCalled == last.kind = "keydown" /\ last.call = "jump"

\* C11 (claw gating): while has_claw is false, wall_slide is false and
\* sliding_time is 0 after every step, whatever the wall contact, air_time
\* and velocity; the fall speed is never clamped to WALL_SLIDE_VEL, only
\* capped at TERMINAL_VELOCITY; and no call of jump is a wall jump
\* (wall_jump_timer and wall_jump_direction are left as they were).
C11_ClawGating ==
    ~player.has_claw =>
        /\ ~player.wall_slide
        /\ player.sliding_time = 0
        /\ player.velocity[2] <= TERMINAL_VELOCITY
        /\ Integrated => player.velocity[2] = VyRule
        /\ JumpCalled =>
              /\ player.wall_jump_timer = player0.wall_jump_timer
              /\ player.wall_jump_direction = player0.wall_jump_direction
        /\ track.walljump = -1

\* a player without the claw has fallen along the wall, in contact with it,
\* in every condition of the wall slide but the claw, faster than
\* WALL_SLIDE_VEL
C11_Witness ==
    /\ ~player.has_claw
    /\ Integrated
    /\ wall_slide_cond_no_claw(player)
    /\ Pre.player.velocity[2] > WALL_SLIDE_VEL
    /\ player.velocity[2] > WALL_SLIDE_VEL

\* C12 (vertical velocity rule): the integrator step of every tick ends with
\* vy = 0 if that step has set collisions.up or collisions.down, and with
\* min(TERMINAL_VELOCITY, vy + gravity) otherwise (the wall slide of the same
\* tick may then lower it to WALL_SLIDE_VEL); and in every state, whatever
\* the interleaving of update, jump, jump_release, dash and death_warp, vy is
\* at most TERMINAL_VELOCITY.
C12_VerticalVelocity ==
    /\ player.velocity[2] <= TERMINAL_VELOCITY
    /\ Integrated =>
          player.velocity[2] =
              IF player.wall_slide THEN Min(VyRule, WALL_SLIDE_VEL) ELSE VyRule

\* the cap has applied: a tick without vertical collision has started at a
\* speed that gravity would have raised above TERMINAL_VELOCITY
C12_Witness ==
    /\ Integrated
    /\ ~player.collisions.down
    /\ ~player.collisions.up
    /\ ~player.wall_slide
    /\ VyIn + player.gravity > TERMINAL_VELOCITY
    /\ player.velocity[2] = TERMINAL_VELOCITY

\* the flags with which the Player.update of the last pass would have ended,
\* had the player entered it with the flags c
AllCollisions == [up |-> TRUE, down |-> TRUE, right |-> TRUE, left |-> TRUE]

FlagsFrom(c) ==
    update_player([Pre EXCEPT !.player.collisions = c], tilemap).player.collisions

FlagsFresh ==
    /\ FlagsFrom(NoCollisions) = player.collisions
    /\ FlagsFrom(AllCollisions) = player.collisions

\* C13 as stated: after every Player.update, the ticks of hitstun included,
\* the flags are those that the tick itself has established; none is owed
\* to the flags with which the tick started.
C13_Original ==
    (Ticked /\ Pre.player.can_update) => FlagsFresh

\* C13 (collision flags), amended: after every Player.update that runs while
\* can_move is true, the flags are those that the tick itself has
\* established, whatever the flags it started with; a Player.update during
\* hitstun skips the integrator and leaves the flags of the previous tick in
\* place (it can only add the contact with an entity).
C13_FlagsRecomputed ==
    /\ Integrated => FlagsFresh
    /\ Stunned =>
          /\ player.collisions.up = player0.collisions.up
          /\ player.collisions.down = player0.collisions.down
          /\ player0.collisions.left => player.collisions.left
          /\ player0.collisions.right => player.collisions.right
          /\ Pre.player.entity_x_colliding = -1 => player.collisions = player0.collisions

\* a tick that has run the integrator has started with the flag of the wall
\* set and has ended with it clear
C13_Witness ==
    /\ Integrated
    /\ player0.collisions.left
    /\ ~player.collisions.left

\* the movement that the Player.update of a tick of hitstun hands to the
\* integrator, the input being (0, 0), and the player as one step of the
\* integrator would leave it
StunMove ==
    Only({ IF Abs(Pre.player.dash_timer) > 0 THEN <<m0[1], 0>> ELSE m0
           : m0 \in {shape_movement(Pre.player, <<0, 0>>)} })

StunStep == update(set_gravity(Pre.player), tilemap, StunMove)

Input ==
    (IF Pre.game.player_movement[2] THEN 1 ELSE 0)
        - (IF Pre.game.player_movement[1] THEN 1 ELSE 0)

\* wall_jump_timer at the start of the last pass, in ticks, is below n
SinceWallJumpBelow(n) == Pre.player.wall_jump_timer < n * TIMER_SCALE

\* C15 (movement shaping): the horizontal movement handed to the integrator
\* is decided by the timers as they stand at the start of the tick, in this
\* order: forced at MOVEMENT_X_SCALE in the direction of the wall jump while
\* wall_jump_timer < WALL_JUMP_TICK_CUTOFF; 0 while it is below the cutoff
\* plus WALL_JUMP_TICK_STALL; the dash at DASH_X_SCALE in the sign of
\* dash_timer while dash_timer is not 0; the input times MOVEMENT_X_SCALE
\* otherwise.  On every tick that starts with dash_timer not 0, gravity is 0
\* and there is no vertical movement.
C15_Shaping ==
    /\ Integrated =>
          /\ player.last_movement[1] =
                IF SinceWallJumpBelow(WALL_JUMP_TICK_CUTOFF)
                THEN (IF Pre.player.wall_jump_direction THEN 1 ELSE -1) * MOVEMENT_X_SCALE
                ELSE IF SinceWallJumpBelow(WALL_JUMP_TICK_CUTOFF + WALL_JUMP_TICK_STALL)
                THEN 0
                ELSE IF Pre.player.dash_timer # 0
                THEN (IF Pre.player.dash_timer > 0 THEN 1 ELSE -1) * DASH_X_SCALE
                ELSE Input * MOVEMENT_X_SCALE
          /\ Pre.player.dash_timer # 0 =>
                /\ player.last_movement[2] = 0
                /\ player.pos[2] = Pre.player.pos[2]
                /\ player.velocity[2] = 0
    /\ (Ticked /\ Pre.player.can_update /\ Pre.player.dash_timer # 0) =>
          player.gravity = 0

\* a tick has started within the cutoff of a wall jump and during a dash,
\* with the key against the forced direction held: the wall jump has decided
C15_Witness ==
    /\ Integrated
    /\ SinceWallJumpBelow(WALL_JUMP_TICK_CUTOFF)
    /\ Pre.player.dash_timer # 0
    /\ Input = -1
    /\ player.last_movement[1] = MOVEMENT_X_SCALE

\* C16 (wall-jump lockout): the lockout exists only after a wall jump.  On
\* every tick of a player that has made no wall jump within the preceding
\* WALL_JUMP_TICK_CUTOFF + WALL_JUMP_TICK_STALL ticks, and so on every tick
\* of a player that has never made one, the horizontal movement handed to
\* the integrator is the dash movement or the scaled input, never the forced
\* or zeroed movement of the lockout.
C16_LockoutOnlyAfterWallJump ==
    (/\ Integrated
     /\ track.on
     /\ \/ track.walljump = -1
        \/ track.walljump > WALL_JUMP_TICK_CUTOFF + WALL_JUMP_TICK_STALL) =>
        player.last_movement[1] =
            IF Pre.player.dash_timer # 0
            THEN (IF Pre.player.dash_timer > 0 THEN 1 ELSE -1) * DASH_X_SCALE
            ELSE Input * MOVEMENT_X_SCALE

\* the last call of Player.jump has had the effects of the wall jump
WallJumped ==
    /\ JumpCalled
    /\ player.wall_jump_timer = 0
    /\ player.velocity[2] = WALL_JUMP_Y
    /\ player.wall_jump_direction = ~player0.wall_slide_right
    /\ player.jumps = player0.jumps

\* C17 as stated: jump() takes the wall-jump branch only if the player is
\* sliding on a wall at the time of the call and owns the claw, and when
\* that holds the wall jump is the branch taken.
C17_Original ==
    /\ WallJumped => (player0.wall_slide /\ player0.has_claw)
    /\ (JumpCalled /\ player0.wall_slide /\ player0.has_claw) => WallJumped

\* C17 (wall-jump eligibility), amended: jump() takes the wall-jump branch
\* (vertical velocity WALL_JUMP_Y, wall_jump_timer reset to 0, direction away
\* from the wall last gripped) exactly when the player owns the claw, has
\* wall_slide_timer < WALL_JUMP_BUFFER (it slid on a wall less than
\* WALL_JUMP_BUFFER ticks ago, and need not be sliding any more) and has
\* wall_jump_timer > WALL_JUMP_BUFFER + 4; the branch comes before the jump
\* from the ground and the jump in mid-air, and a call that does not take it
\* leaves wall_jump_timer and wall_jump_direction alone.
C17_WallJumpEligibility ==
    JumpCalled =>
        IF /\ player0.has_claw
           /\ player0.wall_slide_timer < WALL_JUMP_BUFFER
           /\ player0.wall_jump_timer > (WALL_JUMP_BUFFER + 4) * TIMER_SCALE
        THEN WallJumped /\ last.ok
        ELSE /\ player.wall_jump_timer = player0.wall_jump_timer
             /\ player.wall_jump_direction = player0.wall_jump_direction

\* a wall jump of a player that has stopped sliding, within the buffer
C17_Witness ==
    /\ WallJumped
    /\ ~player0.wall_slide
    /\ player0.sliding_time = 0
    /\ player0.wall_slide_timer > 0

\* C18 (coyote window): jump() applies JUMP_Y_VEL, the velocity of the jump
\* from the ground, only if a Player.update has ended with collisions.down
\* within the last 2 * AIRTIME_BUFFER updates; once more updates than that
\* have passed since the last contact with the ground, no call of jump gives
\* the jump from the ground until the player touches the ground again.
C18_CoyoteWindow ==
    (track.on /\ JumpCalled /\ player.velocity[2] = JUMP_Y_VEL) =>
        /\ track.ground >= 0
        /\ track.ground <= 2 * AIRTIME_BUFFER

\* the last call of Player.jump was the jump in mid-air: it has used a jump
AirJumped ==
    /\ JumpCalled
    /\ player.jumps < player0.jumps

\* C19 (charge accounting): between two Player.update calls that restore the
\* charges (one that ends with collisions.down, or one that starts with
\* sliding_time > 0) at most NUM_AIR_JUMPS jumps in mid-air and at most
\* NUM_AIR_DASHES dashes succeed; a jump in mid-air succeeds only with the
\* wings; jumps and dashes are 0 or 1 in every state.
C19_Charges ==
    /\ player.jumps \in 0..NUM_AIR_JUMPS
    /\ player.dashes \in 0..NUM_AIR_DASHES
    /\ track.on =>
          /\ track.airjumps <= NUM_AIR_JUMPS
          /\ track.dashes <= NUM_AIR_DASHES
    /\ AirJumped =>
          /\ player0.has_wings
          /\ player.velocity[2] = AIR_JUMP_Y_VEL
          /\ player.jumps = 0

\* a player beside a wall, in contact with it but not sliding, has used its
\* jump in mid-air, has gone through an update since, and a further call of
\* jump is refused
C19_Witness ==
    /\ track.on
    /\ track.airjumps = NUM_AIR_JUMPS
    /\ JumpCalled
    /\ ~last.ok
    /\ steps > 0
    /\ player0.collisions.left
    /\ player0.jumps = 0
    /\ player.velocity = player0.velocity

\* the vertical velocities that Player.jump sets
JumpVelocities == {WALL_JUMP_Y, JUMP_Y_VEL, AIR_JUMP_Y_VEL}

\* C20 (result of jump): jump() returns true if and only if a jump has
\* occurred: a call that returns true has set the vertical velocity to
\* WALL_JUMP_Y, JUMP_Y_VEL or AIR_JUMP_Y_VEL, and a call that returns false,
\* as does every call that performs no jump, has changed no field of the
\* player.
C20_JumpReturn ==
    JumpCalled =>
        /\ last.ok => player.velocity[2] \in JumpVelocities
        /\ ~last.ok => player = player0

\* ------------------------------------------------------------------------
\* The items: the room with the player at the left spawner and, in one map,
\* a grub at the spawner, two ability pickups in one place three steps to
\* its right and a grub behind them; in another a lever at the spawner and
\* a gate on either side; in a third the lever and no gate.  The lever and
\* the first grub are touched in the first pass.
\* ------------------------------------------------------------------------
MaxItemTicks == 22
MaxItemEvents == 2

ItemSpawn == <<8, 2>>

\* the spawners of the three maps, in whole pixels and in the order of the
\* map file
PickupMap ==
    <<NewCollectable(1, <<0, -8>>, "grub", FALSE),
      NewCollectable(2, <<20, 0>>, "dash_pickup", FALSE),
      NewCollectable(3, <<20, 0>>, "claw_pickup", FALSE),
      NewCollectable(4, <<22, -8>>, "grub", FALSE)>>

GateMap ==
    <<NewCollectable(1, <<-40, -16>>, "gate", TRUE),
      NewCollectable(2, <<4, 2>>, "lever", FALSE),
      NewCollectable(3, <<40, -16>>, "gate", TRUE)>>

NoGateMap ==
    <<NewCollectable(1, <<4, 2>>, "lever", FALSE),
      NewCollectable(2, <<22, -8>>, "grub", FALSE)>>

ItemMaps == {PickupMap, GateMap, NoGateMap}

ItemKeysDown == {"right", "g"}
ItemKeysUp == {"right"}

ItemInit ==
    /\ tilemap = Room
    /\ \E cs \in ItemMaps :
          LET w == frames(loaded(ItemSpawn, cs), tilemap, WarmFrames)
          IN /\ player = w.player
             /\ game = w.game
             /\ collectables = w.collectables
    /\ player0 = player
    /\ game0 = game
    /\ collectables0 = collectables
    /\ last = [kind |-> "init", key |-> "", call |-> "", ok |-> TRUE]
    /\ events = 0
    /\ dashlog = [age |-> -1, gap |-> -1, quiet |-> FALSE]
    /\ track = NoTrack
    /\ steps = 0
    /\ NoEntity
    /\ NoMap

ItemFrame == Tick(MaxItemTicks)

ItemKeyDown(k) == Press(k, MaxItemEvents)

ItemKeyUp(k) == Release(k, MaxItemEvents)

ItemNext ==
    \/ ItemFrame
    \/ \E k \in ItemKeysDown : ItemKeyDown(k)
    \/ \E k \in ItemKeysUp : ItemKeyUp(k)

SpecItems == ItemInit /\ [][ItemNext]_vars

\* ------------------------------------------------------------------------
\* The hazards: the player, who has the claw, at a spawner beside a wall
\* and a saw two steps to its right, alone, or with a respawn point at the
\* spawner and the cloak one step to the right; a saw over the spawner
\* itself; and spikes in the floor seven steps to the right.  The player
\* takes up to MaxHazardEvents events and MaxHazardTicks passes, enough for
\* a damage sequence to run from the contact to the end of the fade-in and
\* for the player to walk into the hazard again.
\* ------------------------------------------------------------------------
MaxHazardTicks == 66
MaxHazardEvents == 1

SpikedTiles ==
    {Tile("stone", -1, 0)} \cup {Tile("grass", gx, 1) : gx \in {-1, 0, 2}} \cup
    {Tile("spikes", 1, 1)}

Spiked == MakeTilemap(SpikedTiles)

WallSpawn == <<-48, 2>>
SpikedSpawn == <<0, 2>>

SawAhead == NewCollectable(1, <<-37, -8>>, "saw", FALSE)
SawHere == NewCollectable(1, <<-59, -6>>, "saw", FALSE)
RespawnHere == NewCollectable(2, <<-46, 0>>, "respawn", FALSE)
CloakAhead == NewCollectable(3, <<-39, 0>>, "cloak_pickup", FALSE)

\* the maps: tiles and spawners
HazardMaps ==
    {[tiles |-> Room, spawn |-> WallSpawn, cs |-> <<SawAhead>>],
     [tiles |-> Room, spawn |-> WallSpawn, cs |-> <<SawAhead, RespawnHere, CloakAhead>>],
     [tiles |-> Room, spawn |-> WallSpawn, cs |-> <<SawHere>>],
     [tiles |-> Spiked, spawn |-> SpikedSpawn, cs |-> << >>]}

HazardUnlocks == {<<"8">>}

HazardKeysDown == {"right", "backspace"}

HazardInit ==
    /\ \E m \in HazardMaps, keys \in HazardUnlocks :
          LET w == frames(press_all(loaded(m.spawn, m.cs), keys, 1), m.tiles, WarmFrames)
          IN /\ tilemap = m.tiles
             /\ player = w.player
             /\ game = w.game
             /\ collectables = w.collectables
    /\ player0 = player
    /\ game0 = game
    /\ collectables0 = collectables
    /\ last = [kind |-> "init", key |-> "", call |-> "", ok |-> TRUE]
    /\ events = 0
    /\ dashlog = [age |-> -1, gap |-> -1, quiet |-> FALSE]
    /\ track = [FreshTrack EXCEPT
                   !.seq0 = IF game.damage_fade_out \/ game.damage_fade_in THEN -2 ELSE -1]
    /\ steps = 0
    /\ NoEntity
    /\ NoMap

HazardFrame == Tick(MaxHazardTicks)

HazardKeyDown(k) == Press(k, MaxHazardEvents)

HazardNext ==
    \/ HazardFrame
    \/ \E k \in HazardKeysDown : HazardKeyDown(k)

SpecHazard == HazardInit /\ [][HazardNext]_vars

\* ------------------------------------------------------------------------
\* The loop without an end: the passes go on for ever, every pass is taken
\* in the end (the loop of Game.run does nothing else), and the events are
\* MaxLiveEvents at most.  The counters that the program only compares with
\* constants are held at a cap above every constant they are compared with
\* (CapTimer for the timers of the player and for playing_timer, CapCollect
\* for the collect_timer of a grub or a lever, 1 for that of the other
\* collectables, which is only tested for being positive), and
\* death_counter, which the program never reads, at CapDeaths, so that the
\* states are finitely many.  The maps: the saw two
\* steps to the right of the player; the same with a respawn point under
\* the player that lies within the radius of the saw; and a grub one step
\* to the right.
\* ------------------------------------------------------------------------
CapTimer == 32
CapCollect == 121
CapDeaths == 2
MaxLiveEvents == 1

settle(w) ==
    [w EXCEPT
       !.player = [@ EXCEPT !.air_time = Min(@, CapTimer),
                            !.wall_jump_timer = Min(@, CapTimer * TIMER_SCALE),
                            !.dash_cooldown_timer = Min(@, CapTimer),
                            !.wall_slide_timer = Min(@, CapTimer),
                            !.cloak_timer = Min(@, CapTimer),
                            !.idle_timer = Min(@, CapTimer),
                            !.death_counter = Min(@, CapDeaths)],
       !.game = [@ EXCEPT !.playing_timer = Min(@, CapTimer)],
       !.collectables = [k \in 1..Len(@) |->
                            [@[k] EXCEPT !.collect_timer =
                                IF w.collectables[k].type \in {"grub", "lever"}
                                THEN Min(@, CapCollect) ELSE Min(@, 1)]]]

RespawnNear == NewCollectable(2, <<-44, 0>>, "respawn", FALSE)
GrubAhead == NewCollectable(1, <<-39, -8>>, "grub", FALSE)

LiveMaps == {<<SawAhead>>, <<SawAhead, RespawnNear>>, <<GrubAhead>>}

LiveKeysDown == {"right", "backspace"}

LiveInit ==
    /\ tilemap = Room
    /\ \E cs \in LiveMaps :
          LET w == settle(frames(press_all(loaded(WallSpawn, cs), <<"8">>, 1), tilemap,
                                 WarmFrames))
          IN /\ player = w.player
             /\ game = w.game
             /\ collectables = w.collectables
    /\ player0 = player
    /\ game0 = game
    /\ collectables0 = collectables
    /\ last = [kind |-> "init", key |-> "", call |-> "", ok |-> TRUE]
    /\ events = 0
    /\ dashlog = [age |-> -1, gap |-> -1, quiet |-> FALSE]
    /\ track = NoTrack
    /\ steps = 0
    /\ NoEntity
    /\ NoMap

\* one pass of the loop of Game.run; steps is the parity of the number of
\* passes taken
LiveFrame ==
    /\ ~game.crashed
    /\ \E w \in {settle(frame(World, tilemap))} : Becomes(w)
    /\ last' = [kind |-> "frame", key |-> "", call |-> "", ok |-> TRUE]
    /\ steps' = (steps + 1) % 2
    /\ UNCHANGED <<events, dashlog, track>>

\* the loop takes one more pass: no map here has a lever, so that no pass
\* ends the program, and a pass is all that changes steps
LivePass == steps' = (steps + 1) % 2

LiveKeyDown(k) == Press(k, MaxLiveEvents)

LiveNext ==
    \/ LiveFrame
    \/ \E k \in LiveKeysDown : LiveKeyDown(k)

SpecLive == LiveInit /\ [][LiveNext]_vars /\ WF_steps(LivePass)

\* the levers whose delay expires in the pass just taken: their collect_timer
\* was one short of 60 before it
LeversDue == {k \in 1..Len(collectables0) :
                 collectables0[k].type = "lever" /\ collectables0[k].collect_timer = 59}

\* the places of the gates in the list before the last step
Gates0 == {k \in 1..Len(collectables0) : collectables0[k].type = "gate"}

\* the grubs not yet collected before the last step
GrubsLeft0 == {k \in 1..Len(collectables0) :
                  collectables0[k].type = "grub" /\ collectables0[k].collect_timer = 0}

\* C22 (searches for the nearest entity tolerate an empty candidate set):
\* the pass in which the delay of a lever expires (collect_timer reaches 60)
\* while the list holds no gate completes without failure and changes no
\* collectable but the timer of the lever; and a call of grub_pointer while
\* no grub is left uncollected completes without failure and changes
\* nothing.
C22_AbsentOutcome ==
    /\ (Ticked /\ LeversDue # {} /\ Gates0 = {}) =>
           /\ ~game.crashed
           /\ Len(collectables) = Len(collectables0)
           /\ \A k \in 1..Len(collectables0) :
                  IF k \in LeversDue
                  THEN collectables[k] = [collectables0[k] EXCEPT !.collect_timer = 60]
                  ELSE collectables[k].action = collectables0[k].action
                       /\ collectables[k].x_collisions = collectables0[k].x_collisions
    /\ (last.call = "grub_pointer" /\ GrubsLeft0 = {}) =>
           /\ ~game.crashed
           /\ player = player0
           /\ game = game0
           /\ collectables = collectables0

\* C21 (effects of a dash): immediately after a call of dash() that starts
\* a dash, dash_timer is DASH_TICK or -DASH_TICK, dash_cooldown_timer is
\* -DASH_TICK, the vertical velocity is 0, dashes is 0, sliding_time is 0,
\* and cloak_timer has been started at 1 exactly when the player has the
\* cloak.
C21_DashEffects ==
    (DashCalled /\ last.ok) =>
        /\ Abs(player.dash_timer) = DASH_TICK * TIMER_SCALE
        /\ player.dash_cooldown_timer = -DASH_TICK
        /\ player.velocity[2] = 0
        /\ player.dashes = 0
        /\ player.sliding_time = 0
        /\ (player.cloak_timer = 1) <=> player.has_cloak

\* the last step was a pass of the loop in which a hazard has set
\* game.damage_fade_out, which the fades of the pass had left unset
Damaged == Ticked /\ ~Pre.game.damage_fade_out /\ game.damage_fade_out

\* C23 (hazard gating): a contact with a hazard (a saw within its radius,
\* spikes under the grounded player) sets game.damage_fade_out only in a
\* pass in which intangibility_timer has expired and the player is not
\* inside the window of a cloak dash (0 < cloak_timer < DASH_TICK); in
\* particular there is no damage during the intangibility that the start of
\* a fade-in grants.
C23_HazardGating ==
    Damaged =>
        /\ Pre.player.intangibility_timer = 0
        /\ ~(Pre.player.cloak_timer > 0 /\ Pre.player.cloak_timer < DASH_TICK)

\* the last step was a pass of the loop in which Player.death_warp was called
Warped == Ticked /\ player.death_counter = player0.death_counter + 1

\* C24 (ability flags are monotonic): an ability flag (has_dash, has_claw,
\* has_wings, has_cloak) that is true stays true across every step: a pass
\* of the loop with its update, its hitstun, its death warp and its
\* contacts with collectables, and every key handler with its jump or dash.
C24_FlagsMonotonic ==
    /\ player0.has_dash => player.has_dash
    /\ player0.has_claw => player.has_claw
    /\ player0.has_wings => player.has_wings
    /\ player0.has_cloak => player.has_cloak

\* a player that had the claw from the start and has picked up the cloak
\* goes through a death warp and has both after it, and still neither of
\* the other two
C24_Witness ==
    /\ Warped
    /\ player0.has_claw /\ player0.has_cloak
    /\ player.has_claw /\ player.has_cloak
    /\ ~player.has_dash /\ ~player.has_wings
    /\ Len(collectables) = 2

\* the identities of a list of collectables
Ids(cs) == {cs[k].id : k \in 1..Len(cs)}

\* the pickups of the list before the last step, and those of them that the
\* player overlaps after it
Pickups0 == {k \in 1..Len(collectables0) : collectables0[k].type \in PickupTypes}
Reached0 == {k \in Pickups0 : colliderect(entity_rect(collectables0[k]), entity_rect(player))}

\* the abilities of a player, as the types of the pickups that grant them
Abilities(p) ==
    {t \in PickupTypes : \/ (t = "dash_pickup" /\ p.has_dash)
                          \/ (t = "claw_pickup" /\ p.has_claw)
                          \/ (t = "wings_pickup" /\ p.has_wings)
                          \/ (t = "cloak_pickup" /\ p.has_cloak)}

\* C25 (an ability pickup fires once): the pass of the loop in which a
\* pickup first overlaps the player sets the flag of its type and no other,
\* and removes the pickup from game.collectables in that same pass; a
\* pickup that is not overlapped stays as it was; and a pickup that has left
\* the list never returns to it and is never updated again.
C25_PickupOnce ==
    /\ Ticked =>
          /\ \A k \in Reached0 : collectables0[k].id \notin Ids(collectables)
          /\ \A k \in Pickups0 \ Reached0 :
                 \E j \in 1..Len(collectables) : collectables[j] = collectables0[k]
          /\ Abilities(player) =
                 Abilities(player0) \cup {collectables0[k].type : k \in Reached0}
          /\ \A i \in 1..Len(game.updated) : game.updated[i] \in Ids(collectables0)
    /\ Ids(collectables) \subseteq Ids(collectables0)
    /\ ~Ticked => (Abilities(player) = Abilities(player0) /\ collectables = collectables0)

\* the pass in which the player, without abilities, first overlaps the dash
\* and the claw pickups: both are gone, the player has the dash and the
\* claw and neither the wings nor the cloak
C25_Witness ==
    /\ Ticked
    /\ Abilities(player0) = {}
    /\ {collectables0[k].type : k \in Reached0} = {"dash_pickup", "claw_pickup"}
    /\ Abilities(player) = {"dash_pickup", "claw_pickup"}
    /\ Pickups0 # {}
    /\ \A k \in 1..Len(collectables) : collectables[k].type \notin PickupTypes

\* the world as the fade-out of the last pass has left it: when the pass has
\* called Player.death_warp, the world right after the call
AfterFadeOut == fade_out(fix_movement(World0))

\* the respawn points that the player overlaps after the last step
RespawnsTouched ==
    {k \in 1..Len(collectables) :
        /\ collectables[k].type = "respawn"
        /\ colliderect(entity_rect(collectables[k]), entity_rect(player))}

\* what Player.death_warp leaves besides the position, and what becomes of
\* the anchor: the call does not change it, and after the call it changes
\* only to the place of a respawn point that the player touches or, by the
\* backspace key, to the spawner of the map; the motion of the player does
\* not move it
WarpRest ==
    /\ Warped =>
          /\ AfterFadeOut.player.velocity[2] = 0
          /\ AfterFadeOut.player.dash_timer = 0
          /\ AfterFadeOut.player.gravity = GRAVITY_CONST
          /\ AfterFadeOut.player.death_counter = player0.death_counter + 1
          /\ AfterFadeOut.player.action = "kneel"
          /\ AfterFadeOut.game.player_spawn_pos = game0.player_spawn_pos
    /\ Ticked =>
          \/ game.player_spawn_pos = game0.player_spawn_pos
          \/ \E k \in RespawnsTouched : game.player_spawn_pos = collectables[k].pos
    /\ ~Ticked =>
          \/ game.player_spawn_pos = game0.player_spawn_pos
          \/ last.key = "backspace" /\ game.player_spawn_pos = game.world_spawn_pos

\* C26 as stated (postcondition of the death warp): immediately after
\* death_warp() the position of the player equals the stored spawn anchor,
\* the vertical velocity is 0, dash_timer is 0, gravity is GRAVITY_CONST,
\* death_counter has grown by one, the action is 'kneel', and the anchor is
\* unchanged and does not follow the player.
C26_Original ==
    /\ Warped => AfterFadeOut.player.pos = game0.player_spawn_pos
    /\ WarpRest

\* C26 (postcondition of the death warp, amended): immediately after
\* death_warp() the player is at the stored spawn anchor lowered by the
\* vertical offset of a respawn point, COLLECTABLE_OFFSETS['respawn'][1] = 1
\* pixel; the vertical velocity is 0, dash_timer is 0, gravity is
\* GRAVITY_CONST, death_counter has grown by one, the action is 'kneel', and
\* the anchor is unchanged and does not follow the player.
C26_DeathWarp ==
    /\ Warped =>
          AfterFadeOut.player.pos =
              <<game0.player_spawn_pos[1],
                game0.player_spawn_pos[2] + COLLECTABLE_OFFSETS.respawn[2] * SCALE>>
    /\ WarpRest

\* a death warp from beside the saw to the anchor that a respawn point has
\* set, which is not the spawner of the map: the player was elsewhere, and
\* is one pixel below the anchor after the call
C26_Witness ==
    /\ Warped
    /\ game0.player_spawn_pos # game0.world_spawn_pos
    /\ player0.pos[1] # game0.player_spawn_pos[1]
    /\ AfterFadeOut.player.pos[2] = game0.player_spawn_pos[2] + SCALE
    /\ AfterFadeOut.player.pos[1] = game0.player_spawn_pos[1]
    /\ AfterFadeOut.player.action = "kneel"
    /\ player0.action # "kneel"

\* C27 (sequencing of the death warp): death_warp() is called only in a
\* pass that starts with game.damage_fade_out set and blackout_alpha at 255,
\* and once per damage sequence: from the step that sets damage_fade_out to
\* the end of the fade-in death_counter grows by one and no more, however
\* many passes of the fade-out end with the player still in contact with
\* the hazard; the fade-in runs only after the warp.
C27_WarpSequencing ==
    /\ Warped => (game0.damage_fade_out /\ game0.blackout_alpha = 255)
    /\ player.death_counter - player0.death_counter \in {0, 1}
    /\ track.done \in {-1, 1}
    /\ track.seq0 >= 0 =>
          /\ player.death_counter - track.seq0 \in {0, 1}
          /\ game.damage_fade_in => player.death_counter = track.seq0 + 1

\* the pass that ends the fade-in of a sequence whose fade-out has seen the
\* player in contact with the saw in more than one pass: the sequence has
\* had one death warp
C27_Witness ==
    /\ Ticked
    /\ track.done = 1
    /\ track.hits > 1
    /\ player.can_move /\ ~player0.can_move
    /\ ~game.damage_fade_in /\ game0.damage_fade_in

\* C28 (hitstun always ends): whenever hitstun_animation() has set can_move
\* to false, the passes that follow bring the fade sequence to its end and
\* can_move back to true, whatever damage requests arrive, those raised
\* during the fade-out or the fade-in included.
C28_HitstunEnds == (~player.can_move) ~> player.can_move

\* the grubs of game.collectables that have been touched: collect() has
\* started their collect_timer
GrubsTouched == {k \in Grubs : collectables[k].collect_timer > 0}

\* C29 (collectables are destroyed when their sequence is over): a grub that
\* has been touched is removed from game.collectables in the end, once its
\* sequence (break cue, reward cue, burrow cue) has run to its last
\* checkpoint: from any state in which the list holds a touched grub the
\* program reaches a state in which it holds none.
C29_GrubRemoved == (GrubsTouched # {}) ~> (GrubsTouched = {})

\* the identities of the collectables of a list, in the order of the list
IdSeq(cs) == [k \in 1..Len(cs) |-> cs[k].id]

\* the first n elements of a sequence
Prefix(seq, n) == [k \in 1..n |-> seq[k]]

\* C30 (a collectable may leave the list during the pass): the pass of the
\* loop calls update() of every collectable that was in game.collectables
\* when the pass began, once each and in the order of the list, whichever of
\* them remove themselves on the way (if an exception ends the program, of
\* those up to the one that raised it); a collectable that has left the
\* list is in no later list, so that no later pass updates it.
C30_RemovalSafe ==
    /\ Ticked /\ ~game.crashed => game.updated = IdSeq(collectables0)
    /\ Ticked /\ game.crashed =>
          /\ Len(game.updated) <= Len(collectables0)
          /\ game.updated = Prefix(IdSeq(collectables0), Len(game.updated))
    /\ Ids(collectables) \subseteq Ids(collectables0)

\* the pass in which the dash pickup, second of four in the list, removes
\* itself: the claw pickup and the grub, which follow it, are updated in
\* that pass all the same, and the claw pickup removes itself in its turn
C30_Witness ==
    /\ Ticked
    /\ Len(collectables0) = 4
    /\ collectables0[2].type = "dash_pickup"
    /\ collectables0[3].type = "claw_pickup"
    /\ collectables0[2].id \notin Ids(collectables)
    /\ collectables0[3].id \notin Ids(collectables)
    /\ game.updated = IdSeq(collectables0)
    /\ Len(collectables) = 2

\* ------------------------------------------------------------------------
\* The Tilemap on its own: physics_rects_nearby and extract called on a few
\* small levels.  The grids hold solid tiles, decoration, tiles of a type
\* the program does not know and spawners; the loose objects hold spawners
\* and decoration, one of them twice.  The order of the keys of the grid,
\* which is that of the level file, is any.
\* ------------------------------------------------------------------------
MaxMapCalls == 2

TileV(type, variant, gx, gy) == [type |-> type, variant |-> variant, pos |-> <<gx, gy>>]

MapGrids ==
    { MakeTilemap({Tile("grass", 0, 0), Tile("decor", 1, 0), Tile("stone", 3, 0),
                   Tile("lava", -1, -1)}),
      MakeTilemap({Tile("spikes", 0, 3), Tile("grass", 2, 2), Tile("stone", -3, 0),
                   Tile("decor", -2, -2)}),
      MakeTilemap({Tile("grass", 0, 0), TileV("spawners", 1, 1, -1),
                   TileV("spawners", 2, 2, -1), Tile("decor", 0, -1)}),
      MakeTilemap({Tile("spawners", 0, 0)}),
      MakeTilemap({Tile("grass", 0, 1), Tile("stone", 1, 1)}) }

MapLoose ==
    { << >>,
      << [type |-> "spawners", variant |-> 2, pos |-> <<8, 2>>],
         [type |-> "large_decor", variant |-> 0, pos |-> <<5, 5>>],
         [type |-> "spawners", variant |-> 1, pos |-> <<30, -8>>],
         [type |-> "spawners", variant |-> 1, pos |-> <<30, -8>>] >> }

\* the positions asked about, in thousandths of a pixel
QueryCoords == {-20500, -16000, -500, 0, 7300, 15999, 16000, 40000}

IdPairSets ==
    { {<<"spawners", v>> : v \in 0..11},
      {<<"spawners", 1>>},
      {<<"decor", 0>>, <<"large_decor", 0>>},
      {<<"ladder", 0>>} }

\* the orders in which a dictionary may hold the keys of a grid
KeyOrders(tm) ==
    {o \in [1..Cardinality(DOMAIN tm) -> DOMAIN tm] :
        \A i, j \in 1..Cardinality(DOMAIN tm) : i # j => o[i] # o[j]}

MapInit ==
    /\ tilemap \in MapGrids
    /\ offgrid_tiles \in MapLoose
    /\ ret = NoRet
    /\ steps = 0
    /\ NoGame
    /\ NoEntity

\* a call of Tilemap.physics_rects_nearby
MapQuery ==
    /\ steps < MaxMapCalls
    /\ ~ret.raised
    /\ \E x \in QueryCoords, y \in QueryCoords :
          ret' = [NoRet EXCEPT !.call = "physics_rects_nearby",
                               !.pos = <<x, y>>,
                               !.tilemap0 = tilemap,
                               !.offgrid_tiles0 = offgrid_tiles,
                               !.value = physics_rects_nearby(tilemap, <<x, y>>)]
    /\ steps' = steps + 1
    /\ UNCHANGED <<tilemap, offgrid_tiles, entvars, gamevars>>

\* a call of Tilemap.extract; an exception ends the program
MapExtract ==
    /\ steps < MaxMapCalls
    /\ ~ret.raised
    /\ \E id_pairs \in IdPairSets, keep \in BOOLEAN, order \in KeyOrders(tilemap) :
          \E r \in {extract(tilemap, offgrid_tiles, order, id_pairs, keep)} :
              /\ tilemap' = r.tilemap
              /\ offgrid_tiles' = r.offgrid_tiles
              /\ ret' = [NoRet EXCEPT !.call = "extract",
                                      !.id_pairs = id_pairs,
                                      !.keep = keep,
                                      !.tilemap0 = tilemap,
                                      !.offgrid_tiles0 = offgrid_tiles,
                                      !.value = r.matches,
                                      !.raised = r.raised]
    /\ steps' = steps + 1
    /\ UNCHANGED <<entvars, gamevars>>

MapNext ==
    \/ MapQuery
    \/ MapExtract

SpecMap == MapInit /\ [][MapNext]_vars

\* the rectangle of a tile of the grid, the cells of the 5x5 window around
\* the cell of the position asked about, and the sides of the boxes
TileRect(t) == Rect(t.pos[1] * TILE_SIZE, t.pos[2] * TILE_SIZE, TILE_SIZE, TILE_SIZE)
QueryCell == <<ret.pos[1] \div (TILE_SIZE * SCALE), ret.pos[2] \div (TILE_SIZE * SCALE)>>
InWindow(loc) == Abs(loc[1] - QueryCell[1]) <= 2 /\ Abs(loc[2] - QueryCell[2]) <= 2
BoxSides == {1, 8, 14, 16, 2 * TILE_SIZE}

\* the box of the given sides at the position asked about overlaps the
\* rectangle T, as pygame places the box (at the whole pixels of the
\* position) or at the position itself
BoxOverlaps(w, h, T) ==
    \/ colliderect(Rect(Trunc(ret.pos[1]), Trunc(ret.pos[2]), w, h), T)
    \/ /\ ret.pos[1] < (T.x + T.w) * SCALE /\ ret.pos[1] + w * SCALE > T.x * SCALE
       /\ ret.pos[2] < (T.y + T.h) * SCALE /\ ret.pos[2] + h * SCALE > T.y * SCALE

\* the rectangles a call has returned, as a set
Returned == {ret.value[k] : k \in 1..Len(ret.value)}

\* C31 (the spatial query is complete): physics_rects_nearby(pos) returns
\* the rectangles of the tiles of the 5x5 window of cells around
\* floor(pos / tile_size) whose type is in PHYSICS_TILES, each once and no
\* other rectangle; among them is the rectangle of every solid tile that a
\* box at pos of at most two tiles a side overlaps; a tile of another type,
\* known or not, is never returned.
C31_QueryComplete ==
    ret.call = "physics_rects_nearby" =>
        /\ Returned = {TileRect(tilemap[loc]) :
                          loc \in {l \in DOMAIN tilemap :
                                      InWindow(l) /\ tilemap[l].type \in PHYSICS_TILES}}
        /\ Len(ret.value) = Cardinality(Returned)
        /\ \A loc \in DOMAIN tilemap : \A w, h \in BoxSides :
               (tilemap[loc].type \in PHYSICS_TILES /\ BoxOverlaps(w, h, TileRect(tilemap[loc])))
                   => TileRect(tilemap[loc]) \in Returned
        /\ \A loc \in DOMAIN tilemap :
               tilemap[loc].type \notin PHYSICS_TILES => TileRect(tilemap[loc]) \notin Returned

\* a query whose window holds a solid tile in its last column, which a box
\* of two tiles overlaps and a box of one tile does not, a tile of a type
\* the program does not know, which is not returned, and, out of the
\* window, a solid tile, which is not returned either
C31_Witness ==
    /\ ret.call = "physics_rects_nearby"
    /\ \E loc \in DOMAIN tilemap :
          /\ tilemap[loc].type \in PHYSICS_TILES
          /\ loc[1] = QueryCell[1] + 2
          /\ BoxOverlaps(2 * TILE_SIZE, 2 * TILE_SIZE, TileRect(tilemap[loc]))
          /\ ~BoxOverlaps(TILE_SIZE, TILE_SIZE, TileRect(tilemap[loc]))
          /\ TileRect(tilemap[loc]) \in Returned
    /\ \E loc \in DOMAIN tilemap :
          /\ tilemap[loc].type \notin PHYSICS_TILES
          /\ InWindow(loc)
          /\ TileRect(tilemap[loc]) \notin Returned
    /\ \E loc \in DOMAIN tilemap :
          /\ tilemap[loc].type \in PHYSICS_TILES
          /\ ~InWindow(loc)
          /\ TileRect(tilemap[loc]) \notin Returned

\* the elements of a sequence with their numbers of occurrences
BagOf(seq) == [e \in {seq[k] : k \in 1..Len(seq)} |->
                  Cardinality({k \in 1..Len(seq) : seq[k] = e})]

\* the descriptors that extract is to return for the level it was called
\* on: the loose objects that match, as they are, and the tiles of the grid
\* that match, with their position in pixels
Expected ==
    BagOf(SelectSeq(ret.offgrid_tiles0, LAMBDA t : Matches(t, ret.id_pairs)))
    (+) SetToBag({ [ret.tilemap0[loc] EXCEPT !.pos = <<ret.tilemap0[loc].pos[1] * TILE_SIZE,
                                                        ret.tilemap0[loc].pos[2] * TILE_SIZE>>]
                   : loc \in {l \in DOMAIN ret.tilemap0 :
                                Matches(ret.tilemap0[l], ret.id_pairs)} })

\* what extract leaves of the level: nothing that matches, and everything
\* else as it was
Removed ==
    /\ offgrid_tiles = SelectSeq(ret.offgrid_tiles0, LAMBDA t : ~Matches(t, ret.id_pairs))
    /\ DOMAIN tilemap = {l \in DOMAIN ret.tilemap0 : ~Matches(ret.tilemap0[l], ret.id_pairs)}
    /\ \A l \in DOMAIN tilemap : tilemap[l] = ret.tilemap0[l]

\* C32 (extract): extract(id_pairs, keep) completes and returns one
\* descriptor for every tile of the grid and every loose object whose
\* (type, variant) is in id_pairs, those of the grid with their position
\* multiplied by tile_size; without keep no tile or object that matches is
\* left in the level and the others are untouched; with keep the level,
\* the positions stored in the grid included, is as it was.
C32_Extract ==
    ret.call = "extract" =>
        /\ ~ret.raised
        /\ BagOf(ret.value) = Expected
        /\ IF ret.keep
           THEN tilemap = ret.tilemap0 /\ offgrid_tiles = ret.offgrid_tiles0
           ELSE Removed

\* ------------------------------------------------------------------------
\* The animation of the player: the game from a warm start in the shaft,
\* falling along the wall with the key towards it held, and in the room,
\* standing with the keys up, down and right held or not, with every ability
\* or without the cloak.  The passes of the loop are interleaved with a few key events.
\* ------------------------------------------------------------------------
MaxAnimTicks == 6
MaxAnimEvents == 2

AnimSpawn == <<8, 2>>

AnimStarts ==
    { [tiles |-> Shaft, spawn |-> FallSpawn, keys |-> <<"v", "left">>],
      [tiles |-> Shaft, spawn |-> FallSpawn, keys |-> <<"7", "8", "left">>],
      [tiles |-> Room, spawn |-> AnimSpawn, keys |-> <<"v">>],
      [tiles |-> Room, spawn |-> AnimSpawn, keys |-> <<"7">>],
      [tiles |-> Room, spawn |-> AnimSpawn, keys |-> <<"v", "up">>],
      [tiles |-> Room, spawn |-> AnimSpawn, keys |-> <<"v", "down">>],
      [tiles |-> Room, spawn |-> AnimSpawn, keys |-> <<"v", "down", "up">>],
      [tiles |-> Room, spawn |-> AnimSpawn, keys |-> <<"v", "up", "right">>] }

AnimKeysDown == {"left", "right", "up", "down", "space", "shift", "backspace"}
AnimKeysUp == {"up", "right"}

AnimInit ==
    /\ \E s \in AnimStarts :
          /\ tilemap = s.tiles
          /\ \E w \in {frames(press_all(loaded(s.spawn, << >>), s.keys, 1), s.tiles, WarmFrames)} :
                /\ player = w.player
                /\ game = w.game
                /\ collectables = w.collectables
    /\ player0 = player
    /\ game0 = game
    /\ collectables0 = collectables
    /\ last = [kind |-> "init", key |-> "", call |-> "", ok |-> TRUE]
    /\ events = 0
    /\ dashlog = [age |-> -1, gap |-> -1, quiet |-> FALSE]
    /\ track = NoTrack
    /\ steps = 0
    /\ NoEntity
    /\ NoMap

AnimFrame == Tick(MaxAnimTicks)

AnimKeyDown(k) == Press(k, MaxAnimEvents)

AnimKeyUp(k) == Release(k, MaxAnimEvents)

AnimNext ==
    \/ AnimFrame
    \/ \E k \in AnimKeysDown : AnimKeyDown(k)
    \/ \E k \in AnimKeysUp : AnimKeyUp(k)

SpecAnim == AnimInit /\ [][AnimNext]_vars

\* the movement that Game.run hands to Player.update in the last pass
Requested ==
    IF Pre.player.can_move THEN <<Input, 0>> ELSE <<0, 0>>

\* the player of the last pass as the animation hierarchy of its update
\* found it, and the movement as that update had shaped it
AtAnimate ==
    Only({ Only({ Only({
        [player |-> dash_decay(restore_on_wall(restore_on_ground(
                        advance_timers(entity_contact(p2))))),
         movement |-> m]
      : p2 \in {IF Pre.player.can_move
                THEN update(set_gravity(Pre.player), tilemap, m)
                ELSE set_gravity(Pre.player)} })
      : m \in {IF Abs(Pre.player.dash_timer) > 0 THEN <<m0[1], 0>> ELSE m0} })
      : m0 \in {shape_movement(Pre.player, Requested)} })

\* the conditions of the hierarchy in their order, each with its action
Hierarchy(p, movement) ==
    << [cond |-> wall_slide_cond(p), action |-> "wall_slide"],
       [cond |-> Abs(p.dash_timer) > 0, action |-> p.dash_type],
       [cond |-> p.air_time > AIRTIME_BUFFER,
        action |-> IF p.velocity[2] < 0 THEN "jump" ELSE "fall"],
       [cond |-> movement[1] # 0 /\ ~p.collisions.left /\ ~p.collisions.right,
        action |-> "run"],
       [cond |-> p.holding_up, action |-> "look_up"],
       [cond |-> p.holding_down, action |-> "look_down"],
       [cond |-> TRUE, action |-> "idle"] >>

\* the place of the first condition that holds
FirstOf(h) == CHOOSE i \in 1..Len(h) : h[i].cond /\ \A j \in 1..(i - 1) : ~h[j].cond

\* C33 (state priority): a pass whose Player.update runs with can_move true
\* leaves the player with the action of the first condition that holds in
\* the order wall slide, dash or cloak, airborne (jump while rising, fall
\* otherwise), run, look up, look down, idle; idle_timer grows by one when
\* that is one of the last three and is 0 otherwise.  With can_move false
\* the update leaves the action as it was and sets idle_timer to 0.
C33_StatePriority ==
    (Ticked /\ Pre.player.can_update) =>
        \E a \in {AtAnimate} :
            \E i \in {FirstOf(Hierarchy(a.player, a.movement))} :
                IF Pre.player.can_move
                THEN /\ player.action = Hierarchy(a.player, a.movement)[i].action
                     /\ player.idle_timer = IF i >= 5 THEN Pre.player.idle_timer + 1 ELSE 0
                ELSE /\ player.action = Pre.player.action
                     /\ player.idle_timer = 0

\* a pass in which the player, with right and up held, dashes along the
\* floor: of the dash, the run and the look up, whose conditions all hold,
\* the dash is chosen
C33_Witness ==
    /\ Ticked /\ Pre.player.can_update /\ Pre.player.can_move
    /\ Abs(AtAnimate.player.dash_timer) > 0
    /\ ~wall_slide_cond(AtAnimate.player)
    /\ AtAnimate.player.air_time <= AIRTIME_BUFFER
    /\ Hierarchy(AtAnimate.player, AtAnimate.movement)[4].cond
    /\ player.holding_up
    /\ player.action = player.dash_type
    /\ player.idle_timer = 0

\* ------------------------------------------------------------------------
\* The end of a wall: the game from a warm start in which the player, with
\* the claw, slides down a wall that hangs over the floor, on its right or
\* on its left, with the key towards the wall held; a few passes later the
\* player passes under the wall.
\* ------------------------------------------------------------------------
MaxSlideTicks == 10
MaxSlideEvents == 2

OverhangRight ==
    MakeTilemap({Tile("stone", 1, gy) : gy \in -8..-2} \cup
                {Tile("grass", gx, 1) : gx \in -3..4})
OverhangLeft ==
    MakeTilemap({Tile("stone", -1, gy) : gy \in -8..-2} \cup
                {Tile("grass", gx, 1) : gx \in -4..3})

SlideStarts ==
    { [tiles |-> OverhangRight, spawn |-> <<8, -84>>, keys |-> <<"v", "right">>],
      [tiles |-> OverhangRight, spawn |-> <<8, -84>>, keys |-> <<"8", "right">>],
      [tiles |-> OverhangLeft, spawn |-> <<0, -76>>, keys |-> <<"v", "left">>],
      [tiles |-> OverhangLeft, spawn |-> <<0, -76>>, keys |-> <<"8", "left">>] }

SlideKeysDown == {"left", "right", "space"}
SlideKeysUp == {"left", "right"}

SlideInit ==
    /\ \E s \in SlideStarts :
          /\ tilemap = s.tiles
          /\ \E w \in {frames(press_all(loaded(s.spawn, << >>), s.keys, 1), s.tiles, WarmFrames)} :
                /\ player = w.player
                /\ game = w.game
                /\ collectables = w.collectables
    /\ player0 = player
    /\ game0 = game
    /\ collectables0 = collectables
    /\ last = [kind |-> "init", key |-> "", call |-> "", ok |-> TRUE]
    /\ events = 0
    /\ dashlog = [age |-> -1, gap |-> -1, quiet |-> FALSE]
    /\ track = NoTrack
    /\ steps = 0
    /\ NoEntity
    /\ NoMap

SlideFrame == Tick(MaxSlideTicks)

SlideKeyDown(k) == Press(k, MaxSlideEvents)

SlideKeyUp(k) == Release(k, MaxSlideEvents)

SlideNext ==
    \/ SlideFrame
    \/ \E k \in SlideKeysDown : SlideKeyDown(k)
    \/ \E k \in SlideKeysUp : SlideKeyUp(k)

SpecSlide == SlideInit /\ [][SlideNext]_vars

\* the player of the last pass as its update left the animation hierarchy
Animated == animate(AtAnimate.player, AtAnimate.movement)

\* that player is past the place of its grip, on the side of the wall
PastGrip(p) ==
    \/ p.wall_slide_right /\ p.pos[1] > p.wall_slide_x_pos
    \/ ~p.wall_slide_right /\ p.pos[1] < p.wall_slide_x_pos

\* C34 (the wall slide lets go): a pass whose update finds, after the
\* hierarchy, sliding_time > 1 and the player past wall_slide_x_pos on the
\* side of the wall ends with wall_slide false, sliding_time 0 and
\* wall_slide_timer = WALL_JUMP_BUFFER; from then on, until a wall slide
\* begins, wall_slide_timer stays at WALL_JUMP_BUFFER or above and no call
\* of jump is a wall jump.  In a pass that does not find this, the rule
\* changes nothing: wall_slide and wall_slide_timer are as the hierarchy
\* left them.
C34_AutoRelease ==
    /\ (Ticked /\ Pre.player.can_update) =>
          \E a \in {Animated} :
             IF a.sliding_time > 1 /\ PastGrip(a)
             THEN /\ ~player.wall_slide
                  /\ player.sliding_time = 0
                  /\ player.wall_slide_timer = WALL_JUMP_BUFFER
             ELSE /\ player.wall_slide = a.wall_slide
                  /\ player.wall_slide_timer = a.wall_slide_timer
                  /\ player.sliding_time = IF ~a.wall_slide /\ a.has_claw THEN 0 ELSE a.sliding_time
    /\ (player0.wall_slide_timer >= WALL_JUMP_BUFFER /\ ~player.wall_slide) =>
          player.wall_slide_timer >= WALL_JUMP_BUFFER
    /\ (JumpCalled /\ player0.wall_slide_timer >= WALL_JUMP_BUFFER) =>
          /\ jump_kind(player0) # "wall"
          /\ player.wall_jump_timer = player0.wall_jump_timer

\* the pass in which the player, having slid down the wall with the key
\* held, passes under it: the slide is let go and the wall jump, which the
\* pass before allowed, is refused
C34_Witness ==
    /\ Ticked /\ Pre.player.can_update
    /\ Animated.sliding_time > 1 /\ PastGrip(Animated)
    /\ player0.wall_slide /\ can_wall_jump(player0)
    /\ ~player.wall_slide
    /\ player.wall_slide_timer = WALL_JUMP_BUFFER
    /\ ~can_wall_jump(player)

\* ------------------------------------------------------------------------
\* Solid collectables: the game from a warm start in the room, the player
\* with every ability at rest 14.4 px to the left of its spawner, facing
\* left, beside a shade gate, at a dash from a shade gate that stands in
\* the left wall, or between two gates.
\* ------------------------------------------------------------------------
MaxGateTicks == 16
MaxGateEvents == 1

GateSpawn == <<8, 2>>

ShadeBeside == <<NewCollectable(1, <<-23, -16>>, "shade_gate", TRUE)>>
ShadeInWall == <<NewCollectable(1, <<-56, -16>>, "shade_gate", TRUE)>>
GatesAround ==
    <<NewCollectable(1, <<-20, -16>>, "gate", TRUE),
      NewCollectable(2, <<8, -16>>, "gate", TRUE)>>

GateMaps == {ShadeBeside, ShadeInWall, GatesAround}

GateKeysDown == {"shift", "left", "right", "space"}
GateKeysUp == {"left", "right"}

GateInit ==
    /\ tilemap = Room
    /\ \E cs \in GateMaps :
          \E w \in {frames(press_all(loaded(GateSpawn, cs), <<"v">>, 1), Room, WarmFrames)} :
             /\ player = w.player
             /\ game = w.game
             /\ collectables = w.collectables
    /\ player0 = player
    /\ game0 = game
    /\ collectables0 = collectables
    /\ last = [kind |-> "init", key |-> "", call |-> "", ok |-> TRUE]
    /\ events = 0
    /\ dashlog = [age |-> -1, gap |-> -1, quiet |-> FALSE]
    /\ track = NoTrack
    /\ steps = 0
    /\ NoEntity
    /\ NoMap

GateFrame == Tick(MaxGateTicks)

GateKeyDown(k) == Press(k, MaxGateEvents)

GateKeyUp(k) == Release(k, MaxGateEvents)

GateNext ==
    \/ GateFrame
    \/ \E k \in GateKeysDown : GateKeyDown(k)
    \/ \E k \in GateKeysUp : GateKeyUp(k)

SpecGate == GateInit /\ [][GateNext]_vars

\* ------------------------------------------------------------------------
\* C35.  The collision window of a shade gate
\* ------------------------------------------------------------------------
\* the world of the last pass after Player.update and before the
\* collectables
Moved == update_player(Pre, tilemap)

\* the world of the last pass when update() of the collectable with identity
\* id was called, and the world that this update left
BeforeUpdate(id) ==
    Only({ update_collectables([Moved EXCEPT !.game.updated = << >>], Prefix(ids, k - 1), 1)
         : k \in {IndexOf(collectables0, id)}, ids \in {IdSeq(collectables0)} })

AfterUpdate(id) == collectable_update(BeforeUpdate(id), id)

\* the identities of the shade gates of the list
ShadeGates ==
    {collectables0[k].id : k \in {j \in 1..Len(collectables0) : collectables0[j].type = "shade_gate"}}

\* the collectable with identity id of the world w
Item(w, id) == w.collectables[IndexOf(w.collectables, id)]

\* the collectable overlapped the player when its update tested the contact
Overlapped(id) ==
    \E w \in {BeforeUpdate(id)} :
        colliderect(entity_rect(Item(w, id)), entity_rect(w.player))

\* the update of the collectable pushed the player out of it and reported a
\* horizontal block; or it left the player alone
Blocked(id) ==
    \E w \in {AfterUpdate(id)} :
        /\ w.player.entity_x_colliding \in {0, 1}
        /\ w.player.collisions.left \/ w.player.collisions.right
        /\ ~colliderect(entity_rect(Item(w, id)), entity_rect(w.player))

LeftAlone(id) == AfterUpdate(id).player = BeforeUpdate(id).player

\* cloak_timer is within the window of a cloak dash
CloakWindow(p) == p.cloak_timer > 0 /\ p.cloak_timer < DASH_TICK

\* C35 as stated: on every tick a shade gate that overlaps the player pushes
\* the player out and reports a horizontal block if and only if cloak_timer
\* of that tick is outside the window of the cloak dash
C35_Original ==
    Ticked => \A id \in ShadeGates :
        Overlapped(id) => /\ Blocked(id) <=> ~CloakWindow(player)
                        /\ LeftAlone(id) <=> CloakWindow(player)

\* C35: a shade gate that overlaps the player pushes the player out and
\* reports a horizontal block if and only if the flag that its previous
\* update computed is set; every update sets the flag, after the contact
\* test, to whether cloak_timer of that tick is outside the window of the
\* cloak dash.  So the gate still blocks on the first tick of a cloak dash,
\* and DASH_TICK ticks after the dash started it blocks again
C35_ShadeGateWindow ==
    Ticked => \A id \in ShadeGates :
        /\ Overlapped(id) =>
              IF Item(World0, id).x_collisions THEN Blocked(id) ELSE LeftAlone(id)
        /\ Item(World, id).x_collisions = ~CloakWindow(player)
        /\ dashlog.age = 1 /\ Overlapped(id) => Blocked(id)
        /\ dashlog.age >= DASH_TICK /\ Overlapped(id) => Blocked(id)

\* a shade gate blocks the player on the first tick of a cloak dash, while
\* cloak_timer is within the window
C35_Witness ==
    /\ Ticked
    /\ dashlog.age = 1
    /\ CloakWindow(player)
    /\ \E id \in ShadeGates : Overlapped(id) /\ Blocked(id)

\* ------------------------------------------------------------------------
\* C36.  A lever opens the nearest gate
\* ------------------------------------------------------------------------
LEVER_DELAY == 60

\* the identities of the collectables of a type in the list before the last
\* step
OfType(type) ==
    {collectables0[k].id : k \in {j \in 1..Len(collectables0) : collectables0[j].type = type}}

\* the levers whose collect_timer reached the delay in the last pass
Pulled == {l \in OfType("lever") : Item(World0, l).collect_timer = LEVER_DELAY - 1}

\* no gate is closer to the lever l than the gate g, centre to centre
Nearest(l, g) ==
    \A h \in OfType("gate") :
        Dist2(entity_rect(Item(World0, l)), entity_rect(Item(World0, g)))
            <= Dist2(entity_rect(Item(World0, l)), entity_rect(Item(World0, h)))

\* the gate g is open
Open(w, g) == Item(w, g).action = "drop" /\ ~Item(w, g).x_collisions

\* C36: a collect_timer that runs goes up by one on every tick, so that it
\* reaches the delay of 60 once; on that tick one of the gates nearest to
\* the lever, centre to centre, has action "drop" and x_collisions false;
\* the action and x_collisions of a gate change on no other tick and for no
\* other gate; and an open gate stays open and never pushes the player
C36_LeverOpensNearest ==
    (Ticked /\ ~game.crashed) =>
        /\ \A l \in OfType("lever") :
              Item(World0, l).collect_timer > 0 =>
                  Item(World, l).collect_timer = Item(World0, l).collect_timer + 1
        /\ \A l \in Pulled : \E g \in OfType("gate") : Nearest(l, g) /\ Open(World, g)
        /\ \A g \in OfType("gate") :
              /\ \/ Item(World, g).action = Item(World0, g).action
                    /\ Item(World, g).x_collisions = Item(World0, g).x_collisions
                 \/ \E l \in Pulled : Nearest(l, g) /\ Open(World, g)
              /\ Open(World0, g) => Open(World, g)
              /\ Item(World, g).x_collisions => ~Open(World, g) /\ Item(World, g).action = "idle"
              /\ ~Item(BeforeUpdate(g), g).x_collisions => LeftAlone(g)

\* a lever has opened the nearest gate, which is not the first gate of the
\* list, and the other gate is still closed
C36_Witness ==
    /\ Ticked
    /\ \E l \in Pulled : \E g, h \in OfType("gate") :
          /\ g # h
          /\ IndexOf(collectables0, h) < IndexOf(collectables0, g)
          /\ Nearest(l, g) /\ ~Nearest(l, h)
          /\ Open(World, g)
          /\ Item(World, h).x_collisions /\ Item(World, h).action = "idle"

\* ------------------------------------------------------------------------
\* C37.  The spawn anchor and the ground
\* ------------------------------------------------------------------------
\* the respawn points that the player overlapped when their update of the
\* last pass tested the contact
Reached == {r \in OfType("respawn") : Overlapped(r)}

\* the last pass left the player at rest on solid ground, outside a damage
\* sequence: collisions.down is set, the tile below is grass or stone, and
\* no fade runs
OnStableGround ==
    /\ Ticked
    /\ player.can_update /\ player.can_move
    /\ player.collisions.down
    /\ tile_below(tilemap, center(entity_rect(player))) \in {"grass", "stone"}
    /\ ~game.damage_fade_out /\ ~game.damage_fade_in
    /\ ~game0.damage_fade_out /\ ~game0.damage_fade_in

\* the anchor is the place of the player
AnchorAt(g, p) == g.player_spawn_pos = p.pos

\* C37 as stated: a respawn point that the player touches sets the spawn
\* anchor to its own position, and a tick that leaves the player at rest on
\* solid ground without such a contact sets the anchor to the place where
\* the player stands, so that a death warp returns the player there
C37_Original ==
    /\ Ticked => \A r \in Reached : \E q \in Reached :
                    game.player_spawn_pos = Item(World0, q).pos
    /\ (OnStableGround /\ Reached = {}) => AnchorAt(game, player)

\* C37: a respawn point that the player touches sets the spawn anchor to its
\* own position, however often it is touched; a tick without such a contact
\* leaves the anchor as it was, wherever the player stands; of the keys
\* only backspace writes the anchor, which it sets back to the spawner of
\* the map; and a death warp returns the player to the anchor, one pixel
\* lower, not to the ground on which the player stood last
C37_AnchorWrites ==
    /\ Ticked =>
          IF Reached # {}
          THEN \E q \in Reached : game.player_spawn_pos = Item(World0, q).pos
          ELSE game.player_spawn_pos = game0.player_spawn_pos
    /\ last.kind = "keydown" =>
          game.player_spawn_pos =
              IF last.key = "backspace" /\ player0.can_move
              THEN game0.world_spawn_pos ELSE game0.player_spawn_pos
    /\ last.kind = "keyup" => game.player_spawn_pos = game0.player_spawn_pos
    /\ Warped =>
          AfterFadeOut.player.pos =
              <<game0.player_spawn_pos[1], game0.player_spawn_pos[2] + SCALE>>

\* a tick has left the player at rest on solid ground three steps from the
\* anchor, which has not moved
C37_Witness ==
    /\ OnStableGround
    /\ Reached = {}
    /\ player.pos[1] - game.player_spawn_pos[1] > 3 * SCALE
    /\ game.player_spawn_pos = game0.player_spawn_pos


\* ------------------------------------------------------------------------
\* A dash at a wall: the level Shaft, the player constructed in the air
\* beside the wall with every ability, or with the dash and the claw, and
\* either falling freely, turned to the wall, or holding LEFT and sliding
\* down the wall.  The start is the state after ClingFrames passes, the
\* first in which the cool-down that runs from the construction of the
\* player allows a dash; the player then takes up to MaxClingEvents events
\* and MaxClingTicks passes, enough for a dash into the wall to end and for
\* a wall slide to follow it.
\* ------------------------------------------------------------------------
MaxClingTicks == 20
MaxClingEvents == 2
ClingFrames == DASH_COOLDOWN_TICK + 2

ClingUnlocks == {<<"v">>, <<"7", "8">>, <<"v", "left">>}

ClingKeysDown == {"shift", "left"}
ClingKeysUp == {"left"}

ClingInit ==
    /\ tilemap = Shaft
    /\ \E keys \in ClingUnlocks :
          \E w \in {frames(press_all(loaded(FallSpawn, << >>), keys, 1), Shaft, ClingFrames)} :
             /\ player = w.player
             /\ game = w.game
             /\ collectables = w.collectables
    /\ player0 = player
    /\ game0 = game
    /\ collectables0 = collectables
    /\ last = [kind |-> "init", key |-> "", call |-> "", ok |-> TRUE]
    /\ events = 0
    /\ dashlog = [age |-> -1, gap |-> -1, quiet |-> FALSE]
    /\ track = NoTrack
    /\ steps = 0
    /\ NoEntity
    /\ NoMap

ClingFrame == Tick(MaxClingTicks)

ClingKeyDown(k) == Press(k, MaxClingEvents)

ClingKeyUp(k) == Release(k, MaxClingEvents)

ClingNext ==
    \/ ClingFrame
    \/ \E k \in ClingKeysDown : ClingKeyDown(k)
    \/ \E k \in ClingKeysUp : ClingKeyUp(k)

SpecCling == ClingInit /\ [][ClingNext]_vars

\* ------------------------------------------------------------------------
\* C38.  The dash and its cool-down
\* ------------------------------------------------------------------------
\* the update of the last pass took the wall-slide branch of the hierarchy
SlideBranch ==
    /\ Ticked
    /\ Pre.player.can_update /\ Pre.player.can_move
    /\ wall_slide_cond(AtAnimate.player)

\* C38: in every state between two ticks a dash_timer other than 0 goes with
\* dash_cooldown_timer = -|dash_timer|; an update that takes the wall-slide
\* branch started with dash_timer = 0 and halves a timer that is 0
C38_LockStep ==
    /\ player.dash_timer # 0 =>
          player.dash_cooldown_timer * TIMER_SCALE = -Abs(player.dash_timer)
    /\ SlideBranch =>
          /\ Pre.player.dash_timer = 0
          /\ AtAnimate.player.dash_timer = 0
          /\ player.dash_timer = 0

\* a dash into a wall is under way, the timers in step: the player has the
\* claw, touches the wall and has been in the air for longer than the
\* buffer, and the cool-down keeps the update out of the wall-slide branch
C38_Witness ==
    /\ Ticked
    /\ player.dash_timer # 0
    /\ Abs(player.dash_timer) < DASH_TICK * TIMER_SCALE
    /\ player.dash_cooldown_timer * TIMER_SCALE = -Abs(player.dash_timer)
    /\ player.collisions.left \/ player.collisions.right
    /\ player.has_claw
    /\ player.air_time > AIRTIME_BUFFER
    /\ ~SlideBranch

\* ------------------------------------------------------------------------
\* The player at rest: the room Room, from the start of the program, when
\* the player drifts for a few passes, or after WarmFrames passes, when it
\* stands, with every ability or with none, looking up or not.  The player
\* takes up to MaxStillEvents events and MaxStillTicks passes; rest is
\* observed.
\* ------------------------------------------------------------------------
MaxStillTicks == 10
MaxStillEvents == 2

StillStarts ==
    { [spawn |-> <<8, 2>>, keys |-> <<"v">>, warm |-> WarmFrames],
      [spawn |-> <<8, 2>>, keys |-> << >>, warm |-> 0],
      [spawn |-> <<40, 2>>, keys |-> <<"v", "up">>, warm |-> WarmFrames] }

StillKeysDown == {"right", "space", "shift", "up"}
StillKeysUp == {"right"}

StillInit ==
    /\ tilemap = Room
    /\ \E s \in StillStarts :
          \E w \in {frames(press_all(loaded(s.spawn, << >>), s.keys, 1), Room, s.warm)} :
             /\ player = w.player
             /\ game = w.game
             /\ collectables = w.collectables
    /\ player0 = player
    /\ game0 = game
    /\ collectables0 = collectables
    /\ last = [kind |-> "init", key |-> "", call |-> "", ok |-> TRUE]
    /\ events = 0
    /\ dashlog = [age |-> -1, gap |-> -1, quiet |-> FALSE]
    /\ track = RestTrack
    /\ steps = 0
    /\ NoEntity
    /\ NoMap

StillFrame == Tick(MaxStillTicks)

StillKeyDown(k) == Press(k, MaxStillEvents)

StillKeyUp(k) == Release(k, MaxStillEvents)

StillNext ==
    \/ StillFrame
    \/ \E k \in StillKeysDown : StillKeyDown(k)
    \/ \E k \in StillKeysUp : StillKeyUp(k)

SpecStill == StillInit /\ [][StillNext]_vars

\* ------------------------------------------------------------------------
\* C39.  A player at rest stays on the ground
\* ------------------------------------------------------------------------
\* C39: from a pass that leaves the player standing still on the ground
\* (collisions.down set, no horizontal movement, no dash under way), and as
\* long as no jump, no dash and no horizontal input follow, every pass
\* finds air_time at most AIRTIME_BUFFER when it chooses the action, ends
\* less than AIRTIME_BUFFER passes after one with collisions.down, chooses
\* neither 'jump' nor 'fall', and leaves the jump from the ground open
C39_StandingStill ==
    (Ticked /\ track.rest >= 0) =>
        /\ AtAnimate.player.air_time <= AIRTIME_BUFFER
        /\ track.ground < AIRTIME_BUFFER
        /\ player.action \notin {"jump", "fall"}
        /\ jump_kind(player) = "ground"

\* the player has stood still since the last pass with collisions.down, and
\* the last pass has ended without it, one pass before the buffer runs out
C39_Witness ==
    /\ Ticked
    /\ track.rest >= AIRTIME_BUFFER - 1
    /\ track.ground = AIRTIME_BUFFER - 1
    /\ ~player.collisions.down
    /\ player.air_time = AIRTIME_BUFFER - 1
    /\ player.action \in {"idle", "look_up"}

\* ------------------------------------------------------------------------
\* C40.  The side of a block by a solid collectable
\* ------------------------------------------------------------------------
\* the solid collectables that overlapped the player when their update of
\* the last pass tested the contact
Solids ==
    {collectables0[k].id : k \in {j \in 1..Len(collectables0) :
        /\ Item(BeforeUpdate(collectables0[j].id), collectables0[j].id).x_collisions
        /\ Overlapped(collectables0[j].id)}}

\* the centre of the player was to the left of the centre of the collectable
\* when its update of the last pass tested the contact
LeftOf(id) ==
    center(entity_rect(BeforeUpdate(id).player))[1]
        < center(entity_rect(Item(BeforeUpdate(id), id)))[1]

\* the side on which the collectables of the pass before the last have
\* blocked the player, as Player.update of the last pass found it recorded:
\* "right" for a player that was to the left of the collectable
Recorded ==
    CASE Pre.player.entity_x_colliding = 0 -> "right"
      [] Pre.player.entity_x_colliding = 1 -> "left"
      [] OTHER -> "none"

\* C40: a solid collectable that overlaps a player whose centre is to the
\* left of its own sets collisions.right and leaves collisions.left alone,
\* and the following Player.update reports the block on the right as well;
\* the same with the sides exchanged for a player to the right; and a pass
\* that reports a block by a collectable ends with wall_slide false
C40_BlockSide ==
    Ticked =>
        /\ \A id \in Solids :
              IF LeftOf(id)
              THEN /\ AfterUpdate(id).player.collisions.right
                   /\ AfterUpdate(id).player.collisions.left
                         = BeforeUpdate(id).player.collisions.left
              ELSE /\ AfterUpdate(id).player.collisions.left
                   /\ AfterUpdate(id).player.collisions.right
                         = BeforeUpdate(id).player.collisions.right
        /\ (Pre.player.can_update /\ Recorded = "right") =>
              AtAnimate.player.collisions.right
        /\ (Pre.player.can_update /\ Recorded = "left") =>
              AtAnimate.player.collisions.left
        /\ player.entity_collision => ~player.wall_slide
====
